---- MODULE Spec2Model ----
(***************************************************************************)
(* Ledgerly: the ledger store (Sale, Expense, Stock), the transaction      *)
(* service (BillingService, StockService), the import normalizer of the    *)
(* dashboard and the dashboard handlers that call them.                    *)
(*                                                                         *)
(* Text is a sequence of one-character strings, so that strip, lower and   *)
(* replace act on characters.  Numbers are integers (the code's floats).   *)
(* Dates are day numbers; Jan15 and Jan16 are the two dates of the sample  *)
(* data.  DataFrame operations follow pandas 2.x: a missing value is NaN,  *)
(* and astype(str) turns it into the text "nan".                           *)
(***************************************************************************)
EXTENDS Integers, Sequences, FiniteSets, TLC

VARIABLES db, today, last, nops, calls

vars == <<db, today, last, nops, calls>>

\* ------------------------------------------------------------------ bounds
MaxOps == 3
MaxDays == 1

\* the callers of the services (dashboard sessions), and a caller that has no
\* service call in progress
Callers == {1, 2}

NoCalls == [c \in Callers |-> [pc |-> "idle", session |-> "none"]]

\* ------------------------------------------------------------------- text
Sugar == <<"S", "u", "g", "a", "r">>
Rice == <<"R", "i", "c", "e">>
Tea == <<"T", "e", "a">>
Salt == <<"S", "a", "l", "t">>
John == <<"J", "o", "h", "n">>
Mary == <<"M", "a", "r", "y">>
Bob == <<"B", "o", "b">>
Fuel == <<"F", "u", "e", "l">>
Empty == <<>>

\* dates of the sample data, as day numbers
Jan15 == 15
Jan16 == 16

\* parse_date("today")
Today == today

\* --------------------------------------------------------------- sessions
\* One Session per service call.  The committed store is d; tx is what the
\* session has flushed inside its transaction.
\* variant of Rollback: what the transaction wrote stays in the store
Rollback_keeps(d, tx) == tx

Rollback(d, tx) == d

Commit(d, tx) == tx

Raised(d) == [db |-> d, raised |-> TRUE, ret |-> 0, created |-> FALSE]

Returned(d, id, created) == [db |-> d, raised |-> FALSE, ret |-> id, created |-> created]

\* INTEGER PRIMARY KEY: the largest id in the table plus one
RECURSIVE MaxId(_)
MaxId(rows) ==
    IF rows = <<>> THEN 0
    ELSE LET m == MaxId(Tail(rows))
         IN  IF Head(rows).id > m THEN Head(rows).id ELSE m

NextId(rows) == MaxId(rows) + 1

\* session.query(Stock).filter_by(item=item).first(): the index of the first
\* row with that item, 0 when there is none
FirstStock(rows, item) ==
    IF \E i \in 1..Len(rows) : rows[i].item = item
    THEN CHOOSE i \in 1..Len(rows) :
            /\ rows[i].item = item
            /\ \A j \in 1..(i - 1) : rows[j].item # item
    ELSE 0

\* variant of UniqueViolation: the column carries no unique constraint
UniqueViolation_off(rows, item) == FALSE

\* Stock.item is unique=True: an INSERT of an item already there fails
UniqueViolation(rows, item) == \E i \in 1..Len(rows) : rows[i].item = item

\* ------------------------------------------------------- BillingService
SaleFailPoints == {"none", "insert", "lookup", "commit"}

\* variant of add_sale: the stock adjustment has the wrong sign
add_sale_adds_qty(d, item, qty, unit_price, total, customer, fail) ==
    LET sale == [id |-> NextId(d.sales), item |-> item, qty |-> qty,
                 unit_price |-> unit_price, total |-> total,
                 customer |-> customer, date |-> Today]
        tx1 == [d EXCEPT !.sales = Append(@, sale)]
        i == FirstStock(tx1.stock, item)
        tx2 == IF i # 0
               THEN [tx1 EXCEPT !.stock[i].qty = @ + qty,
                                !.stock[i].last_updated = Today]
               ELSE tx1
    IN  IF fail # "none" THEN Raised(d)
        ELSE Returned(tx2, sale.id, FALSE)

\* variant of add_sale: a sale of an unknown item opens a Stock row for it
add_sale_creates_stock(d, item, qty, unit_price, total, customer, fail) ==
    LET sale == [id |-> NextId(d.sales), item |-> item, qty |-> qty,
                 unit_price |-> unit_price, total |-> total,
                 customer |-> customer, date |-> Today]
        tx1 == [d EXCEPT !.sales = Append(@, sale)]
        i == FirstStock(tx1.stock, item)
        stock == [id |-> NextId(d.stock), item |-> item, qty |-> 0 - qty,
                  threshold |-> 0, unit_cost |-> 0, last_updated |-> Today]
        tx2 == IF i # 0
               THEN [tx1 EXCEPT !.stock[i].qty = @ - qty,
                                !.stock[i].last_updated = Today]
               ELSE [tx1 EXCEPT !.stock = Append(@, stock)]
    IN  IF fail # "none" THEN Raised(d)
        ELSE Returned(tx2, sale.id, FALSE)

\* variant of add_sale: a sale of more than the quantity on hand is refused
add_sale_checks_stock(d, item, qty, unit_price, total, customer, fail) ==
    LET sale == [id |-> NextId(d.sales), item |-> item, qty |-> qty,
                 unit_price |-> unit_price, total |-> total,
                 customer |-> customer, date |-> Today]
        tx1 == [d EXCEPT !.sales = Append(@, sale)]
        i == FirstStock(tx1.stock, item)
        tx2 == IF i # 0
               THEN [tx1 EXCEPT !.stock[i].qty = @ - qty,
                                !.stock[i].last_updated = Today]
               ELSE tx1
    IN  IF fail # "none" \/ (i # 0 /\ d.stock[i].qty < qty) THEN Raised(d)
        ELSE Returned(tx2, sale.id, FALSE)

add_sale(d, item, qty, unit_price, total, customer, fail) ==
    LET sale == [id |-> NextId(d.sales), item |-> item, qty |-> qty,
                 unit_price |-> unit_price, total |-> total,
                 customer |-> customer, date |-> Today]
        tx1 == [d EXCEPT !.sales = Append(@, sale)]
        i == FirstStock(tx1.stock, item)
        tx2 == IF i # 0
               THEN [tx1 EXCEPT !.stock[i].qty = @ - qty,
                                !.stock[i].last_updated = Today]
               ELSE tx1
    IN  CASE fail = "insert" -> Raised(Rollback(d, d))
          [] fail = "lookup" -> Raised(Rollback(d, tx1))
          [] fail = "commit" -> Raised(Rollback(d, tx2))
          [] OTHER -> Returned(Commit(d, tx2), sale.id, FALSE)

ExpenseFailPoints == {"none", "commit"}

\* variant of add_expense: a failed commit leaves the inserted row behind
add_expense_keeps_row(d, category, vendor, amount, notes, fail) ==
    LET expense == [id |-> NextId(d.expenses), category |-> category,
                    vendor |-> vendor, amount |-> amount, date |-> Today,
                    notes |-> notes]
        tx1 == [d EXCEPT !.expenses = Append(@, expense)]
    IN  CASE fail = "commit" -> Raised(tx1)
          [] OTHER -> Returned(tx1, 0, FALSE)

add_expense(d, category, vendor, amount, notes, fail) ==
    LET expense == [id |-> NextId(d.expenses), category |-> category,
                    vendor |-> vendor, amount |-> amount, date |-> Today,
                    notes |-> notes]
        tx1 == [d EXCEPT !.expenses = Append(@, expense)]
    IN  CASE fail = "commit" -> Raised(Rollback(d, tx1))
          [] OTHER -> Returned(Commit(d, tx1), 0, FALSE)

StockFailPoints == {"none", "lookup", "commit"}

\* variant of add_stock_safe: no lookup, every call inserts
add_stock_safe_blind(d, item, qty, threshold, unit_cost, fail) ==
    LET new_stock == [id |-> NextId(d.stock), item |-> item, qty |-> qty,
                      threshold |-> threshold, unit_cost |-> unit_cost,
                      last_updated |-> Today]
    IN  IF fail # "none" THEN Raised(d)
        ELSE Returned([d EXCEPT !.stock = Append(@, new_stock)], new_stock.id, TRUE)

\* variant of add_stock_safe: an update leaves threshold and unit_cost alone
add_stock_safe_qty_only(d, item, qty, threshold, unit_cost, fail) ==
    LET i == FirstStock(d.stock, item)
        upd == [d EXCEPT !.stock[i].qty = qty,
                         !.stock[i].last_updated = Today]
        new_stock == [id |-> NextId(d.stock), item |-> item, qty |-> qty,
                      threshold |-> threshold, unit_cost |-> unit_cost,
                      last_updated |-> Today]
        ins == [d EXCEPT !.stock = Append(@, new_stock)]
    IN  CASE fail # "none" -> Raised(d)
          [] i # 0 -> Returned(upd, d.stock[i].id, FALSE)
          [] OTHER -> Returned(ins, new_stock.id, TRUE)

\* variant of add_stock_safe: an update adds qty to the quantity on hand
add_stock_safe_accumulates(d, item, qty, threshold, unit_cost, fail) ==
    LET i == FirstStock(d.stock, item)
        upd == [d EXCEPT !.stock[i].qty = @ + qty,
                         !.stock[i].threshold = threshold,
                         !.stock[i].unit_cost = unit_cost,
                         !.stock[i].last_updated = Today]
        new_stock == [id |-> NextId(d.stock), item |-> item, qty |-> qty,
                      threshold |-> threshold, unit_cost |-> unit_cost,
                      last_updated |-> Today]
        ins == [d EXCEPT !.stock = Append(@, new_stock)]
    IN  CASE fail # "none" -> Raised(d)
          [] i # 0 -> Returned(upd, d.stock[i].id, FALSE)
          [] OTHER -> Returned(ins, new_stock.id, TRUE)

\* variant of add_stock_safe: an update does not stamp last_updated
add_stock_safe_no_stamp(d, item, qty, threshold, unit_cost, fail) ==
    LET i == FirstStock(d.stock, item)
        upd == [d EXCEPT !.stock[i].qty = qty,
                         !.stock[i].threshold = threshold,
                         !.stock[i].unit_cost = unit_cost]
        new_stock == [id |-> NextId(d.stock), item |-> item, qty |-> qty,
                      threshold |-> threshold, unit_cost |-> unit_cost,
                      last_updated |-> Today]
        ins == [d EXCEPT !.stock = Append(@, new_stock)]
    IN  CASE fail # "none" -> Raised(d)
          [] i # 0 -> Returned(upd, d.stock[i].id, FALSE)
          [] OTHER -> Returned(ins, new_stock.id, TRUE)

add_stock_safe(d, item, qty, threshold, unit_cost, fail) ==
    LET i == FirstStock(d.stock, item)
        upd == [d EXCEPT !.stock[i].qty = qty,
                         !.stock[i].threshold = threshold,
                         !.stock[i].unit_cost = unit_cost,
                         !.stock[i].last_updated = Today]
        new_stock == [id |-> NextId(d.stock), item |-> item, qty |-> qty,
                      threshold |-> threshold, unit_cost |-> unit_cost,
                      last_updated |-> Today]
        ins == [d EXCEPT !.stock = Append(@, new_stock)]
    IN  CASE fail = "lookup" -> Raised(Rollback(d, d))
          [] i # 0 /\ fail = "commit" -> Raised(Rollback(d, upd))
          [] i # 0 -> Returned(Commit(d, upd), d.stock[i].id, FALSE)
          [] fail = "commit" \/ UniqueViolation(d.stock, item) ->
                Raised(Rollback(d, ins))
          [] OTHER -> Returned(Commit(d, ins), new_stock.id, TRUE)

\* ---------------------------------------------------------- StockService
\* the first definition of the class, shadowed by the second
update_stock_first(d, item, qty, threshold, unit_cost, fail) ==
    LET i == FirstStock(d.stock, item)
        upd == [d EXCEPT !.stock[i].qty = qty,
                         !.stock[i].threshold = threshold,
                         !.stock[i].unit_cost = unit_cost,
                         !.stock[i].last_updated = Today]
        new_stock == [id |-> NextId(d.stock), item |-> item, qty |-> qty,
                      threshold |-> threshold, unit_cost |-> unit_cost,
                      last_updated |-> Today]
        ins == [d EXCEPT !.stock = Append(@, new_stock)]
        tx == IF i # 0 THEN upd ELSE ins
    IN  CASE fail = "lookup" -> Raised(Rollback(d, d))
          [] fail = "commit" \/ (i = 0 /\ UniqueViolation(d.stock, item)) ->
                Raised(Rollback(d, tx))
          [] OTHER -> Returned(Commit(d, tx), 0, FALSE)

\* [[stock.item, stock.qty, stock.threshold, stock.unit_cost] for stock in stocks]
get_stock_first(d) ==
    [k \in 1..Len(d.stock) |->
        <<d.stock[k].item, d.stock[k].qty, d.stock[k].threshold, d.stock[k].unit_cost>>]

\* variant of update_stock: an update leaves unit_cost as it was
update_stock_keeps_cost(d, item, qty, threshold, unit_cost, fail) ==
    LET i == FirstStock(d.stock, item)
        upd == [d EXCEPT !.stock[i].qty = qty,
                         !.stock[i].threshold = threshold,
                         !.stock[i].last_updated = Today]
        stock == [id |-> NextId(d.stock), item |-> item, qty |-> qty,
                  threshold |-> threshold, unit_cost |-> unit_cost,
                  last_updated |-> Today]
        ins == [d EXCEPT !.stock = Append(@, stock)]
    IN  CASE fail # "none" -> Raised(d)
          [] i # 0 -> Returned(upd, 0, FALSE)
          [] OTHER -> Returned(ins, 0, FALSE)

\* the second definition of the class, the one the module exports
update_stock(d, item, qty, threshold, unit_cost, fail) ==
    LET i == FirstStock(d.stock, item)
        upd == [d EXCEPT !.stock[i].qty = qty,
                         !.stock[i].threshold = threshold,
                         !.stock[i].unit_cost = unit_cost,
                         !.stock[i].last_updated = Today]
        stock == [id |-> NextId(d.stock), item |-> item, qty |-> qty,
                  threshold |-> threshold, unit_cost |-> unit_cost,
                  last_updated |-> Today]
        ins == [d EXCEPT !.stock = Append(@, stock)]
        tx == IF i # 0 THEN upd ELSE ins
    IN  CASE fail = "lookup" -> Raised(Rollback(d, d))
          [] fail = "commit" \/ (i = 0 /\ UniqueViolation(d.stock, item)) ->
                Raised(Rollback(d, tx))
          [] OTHER -> Returned(Commit(d, tx), 0, FALSE)

\* [(s.item, s.qty, s.threshold, s.unit_cost) for s in session.query(Stock).all()]
get_stock(d) ==
    [k \in 1..Len(d.stock) |->
        <<d.stock[k].item, d.stock[k].qty, d.stock[k].threshold, d.stock[k].unit_cost>>]

\* parse_date(date_str) for a date literal of the sample data
parse_date(day) == day

SampleSales == <<
    [item |-> Sugar, qty |-> 2, unit_price |-> 50, total |-> 100,
     customer |-> John, date |-> Jan15],
    [item |-> Rice, qty |-> 1, unit_price |-> 60, total |-> 60,
     customer |-> Mary, date |-> Jan15],
    [item |-> Tea, qty |-> 5, unit_price |-> 10, total |-> 50,
     customer |-> Bob, date |-> Jan16]
>>

SampleStock == <<
    [item |-> Sugar, qty |-> 100, threshold |-> 10, unit_cost |-> 40,
     last_updated |-> Jan15],
    [item |-> Rice, qty |-> 50, threshold |-> 5, unit_cost |-> 60,
     last_updated |-> Jan15],
    [item |-> Tea, qty |-> 200, threshold |-> 20, unit_cost |-> 8,
     last_updated |-> Jan15]
>>

\* the loop over sample_sales, inside the session's transaction
RECURSIVE AddSampleSales(_, _)
AddSampleSales(tx, todo) ==
    IF todo = <<>> THEN tx
    ELSE LET data == Head(todo)
             existing_sale ==
                 \E i \in 1..Len(tx.sales) :
                     /\ tx.sales[i].item = data.item
                     /\ tx.sales[i].customer = data.customer
                     /\ tx.sales[i].date = parse_date(data.date)
             sale == [id |-> NextId(tx.sales), item |-> data.item,
                      qty |-> data.qty, unit_price |-> data.unit_price,
                      total |-> data.total, customer |-> data.customer,
                      date |-> parse_date(data.date)]
             tx1 == IF existing_sale THEN tx
                    ELSE [tx EXCEPT !.sales = Append(@, sale)]
         IN  AddSampleSales(tx1, Tail(todo))

\* the loop over stock_data, inside the same transaction; ok turns FALSE when
\* an INSERT breaks the unique constraint
RECURSIVE AddSampleStock(_, _)
AddSampleStock(acc, todo) ==
    IF todo = <<>> \/ ~acc.ok THEN acc
    ELSE LET data == Head(todo)
             tx == acc.tx
             i == FirstStock(tx.stock, data.item)
             stock == [id |-> NextId(tx.stock), item |-> data.item,
                       qty |-> data.qty, threshold |-> data.threshold,
                       unit_cost |-> data.unit_cost,
                       last_updated |-> parse_date(data.last_updated)]
             acc1 == IF i # 0
                     THEN [acc EXCEPT !.tx.stock[i].qty = data.qty,
                                      !.tx.stock[i].threshold = data.threshold,
                                      !.tx.stock[i].unit_cost = data.unit_cost,
                                      !.tx.stock[i].last_updated =
                                          parse_date(data.last_updated)]
                     ELSE IF UniqueViolation(tx.stock, data.item)
                     THEN [acc EXCEPT !.ok = FALSE]
                     ELSE [acc EXCEPT !.tx.stock = Append(@, stock)]
         IN  AddSampleStock(acc1, Tail(todo))

SampleFailPoints == {"none", "sales", "stock", "commit"}

\* variant of the loop over sample_sales: a sale found is overwritten with
\* the sample's values, as a Stock row found is
RECURSIVE AddSampleSales_overwrites(_, _)
AddSampleSales_overwrites(tx, todo) ==
    IF todo = <<>> THEN tx
    ELSE LET data == Head(todo)
             found == {i \in 1..Len(tx.sales) :
                          /\ tx.sales[i].item = data.item
                          /\ tx.sales[i].customer = data.customer
                          /\ tx.sales[i].date = parse_date(data.date)}
             sale == [id |-> NextId(tx.sales), item |-> data.item,
                      qty |-> data.qty, unit_price |-> data.unit_price,
                      total |-> data.total, customer |-> data.customer,
                      date |-> parse_date(data.date)]
             tx1 == IF found # {}
                    THEN LET i == CHOOSE k \in found : \A j \in found : k <= j
                         IN  [tx EXCEPT !.sales[i].qty = data.qty,
                                        !.sales[i].unit_price = data.unit_price,
                                        !.sales[i].total = data.total]
                    ELSE [tx EXCEPT !.sales = Append(@, sale)]
         IN  AddSampleSales_overwrites(tx1, Tail(todo))

\* variant of load_sample_data: sample sales overwrite the sales they match
load_sample_data_overwrites(d, fail) ==
    LET tx1 == AddSampleSales_overwrites(d, SampleSales)
        done == AddSampleStock([tx |-> tx1, ok |-> TRUE], SampleStock)
    IN  CASE fail = "sales" -> Raised(Rollback(d, d))
          [] fail = "stock" -> Raised(Rollback(d, tx1))
          [] fail = "commit" \/ ~done.ok -> Raised(Rollback(d, done.tx))
          [] OTHER -> Returned(Commit(d, done.tx), 0, FALSE)

\* variant of the loop over sample_sales: no lookup, every sample is inserted
RECURSIVE AddSampleSales_no_lookup(_, _)
AddSampleSales_no_lookup(tx, todo) ==
    IF todo = <<>> THEN tx
    ELSE LET data == Head(todo)
             sale == [id |-> NextId(tx.sales), item |-> data.item,
                      qty |-> data.qty, unit_price |-> data.unit_price,
                      total |-> data.total, customer |-> data.customer,
                      date |-> parse_date(data.date)]
         IN  AddSampleSales_no_lookup([tx EXCEPT !.sales = Append(@, sale)],
                                      Tail(todo))

\* variant of load_sample_data: the sample sales are inserted on every call
load_sample_data_no_lookup(d, fail) ==
    LET tx1 == AddSampleSales_no_lookup(d, SampleSales)
        done == AddSampleStock([tx |-> tx1, ok |-> TRUE], SampleStock)
    IN  CASE fail = "sales" -> Raised(Rollback(d, d))
          [] fail = "stock" -> Raised(Rollback(d, tx1))
          [] fail = "commit" \/ ~done.ok -> Raised(Rollback(d, done.tx))
          [] OTHER -> Returned(Commit(d, done.tx), 0, FALSE)

load_sample_data(d, fail) ==
    LET tx1 == AddSampleSales(d, SampleSales)
        done == AddSampleStock([tx |-> tx1, ok |-> TRUE], SampleStock)
    IN  CASE fail = "sales" -> Raised(Rollback(d, d))
          [] fail = "stock" -> Raised(Rollback(d, tx1))
          [] fail = "commit" \/ ~done.ok -> Raised(Rollback(d, done.tx))
          [] OTHER -> Returned(Commit(d, done.tx), 0, FALSE)

\* ------------------------------------------------------------------ cells
\* A DataFrame cell: text, a number, or NaN (a missing value).
Str(s) == [t |-> "str", s |-> s, n |-> 0]

Num(n) == [t |-> "num", s |-> <<>>, n |-> n]

NaN == [t |-> "nan", s |-> <<>>, n |-> 0]

Whitespace == {" "}

RECURSIVE LStrip(_)
LStrip(s) == IF s # <<>> /\ Head(s) \in Whitespace THEN LStrip(Tail(s)) ELSE s

RECURSIVE RStrip(_)
RStrip(s) ==
    IF s # <<>> /\ s[Len(s)] \in Whitespace
    THEN RStrip(SubSeq(s, 1, Len(s) - 1))
    ELSE s

\* str.strip()
Strip(s) == RStrip(LStrip(s))

UpperCase == <<"A", "B", "C", "D", "E", "F", "G", "H", "I", "J", "K", "L", "M",
               "N", "O", "P", "Q", "R", "S", "T", "U", "V", "W", "X", "Y", "Z">>

LowerCase == <<"a", "b", "c", "d", "e", "f", "g", "h", "i", "j", "k", "l", "m",
               "n", "o", "p", "q", "r", "s", "t", "u", "v", "w", "x", "y", "z">>

LowerChar(c) ==
    IF \E i \in 1..Len(UpperCase) : UpperCase[i] = c
    THEN LowerCase[CHOOSE i \in 1..Len(UpperCase) : UpperCase[i] = c]
    ELSE c

\* str.lower()
Lower(s) == [i \in 1..Len(s) |-> LowerChar(s[i])]

\* str.replace(a, b) for one-character a and b
Replace(s, a, b) == [i \in 1..Len(s) |-> IF s[i] = a THEN b ELSE s[i]]

Digits == <<"0", "1", "2", "3", "4", "5", "6", "7", "8", "9">>

IsDigit(c) == \E i \in 1..Len(Digits) : Digits[i] = c

DigitVal(c) == (CHOOSE i \in 1..Len(Digits) : Digits[i] = c) - 1

IsNatText(s) == s # <<>> /\ \A i \in 1..Len(s) : IsDigit(s[i])

\* text that parses as a whole number: digits, with an optional minus sign
IsIntText(s) == IsNatText(s) \/ (s # <<>> /\ Head(s) = "-" /\ IsNatText(Tail(s)))

RECURSIVE ParseNat(_)
ParseNat(s) ==
    IF s = <<>> THEN 0
    ELSE 10 * ParseNat(SubSeq(s, 1, Len(s) - 1)) + DigitVal(s[Len(s)])

ParseInt(s) == IF Head(s) = "-" THEN 0 - ParseNat(Tail(s)) ELSE ParseNat(s)

RECURSIVE NatText(_)
NatText(n) ==
    IF n < 10 THEN <<Digits[n + 1]>>
    ELSE NatText(n \div 10) \o <<Digits[(n % 10) + 1]>>

IntText(n) == IF n < 0 THEN <<"-">> \o NatText(0 - n) ELSE NatText(n)

\* pd.read_csv: a line with nothing but blanks is skipped (skip_blank_lines),
\* which only a file of one column can have; an empty field is NaN; a column
\* whose other fields all parse as numbers is numeric, any other column holds
\* text; a repeated header is renamed name.1, name.2, ...  The DataFrame
\* remembers in lines the file row each of its rows was read from.
read_csv(raw) ==
    LET ncols == Len(raw.header)
        blank(r) == ncols = 1 /\ Strip(raw.rows[r][1]) = <<>>
        notblank(r) == ~blank(r)
        lines == SelectSeq([r \in 1..Len(raw.rows) |-> r], notblank)
        nrows == Len(lines)
        field(i, j) == raw.rows[lines[i]][j]
        numeric(j) == \A i \in 1..nrows :
                          field(i, j) = <<>> \/ IsIntText(field(i, j))
        cell(i, j) == IF field(i, j) = <<>> THEN NaN
                      ELSE IF numeric(j) THEN Num(ParseInt(field(i, j)))
                      ELSE Str(field(i, j))
        earlier(j) == Cardinality({k \in 1..(j - 1) : raw.header[k] = raw.header[j]})
        name(j) == IF earlier(j) = 0 THEN raw.header[j]
                   ELSE raw.header[j] \o <<".">> \o NatText(earlier(j))
    IN  [columns |-> [j \in 1..ncols |-> name(j)],
         rows |-> [i \in 1..nrows |-> [j \in 1..ncols |-> cell(i, j)]],
         lines |-> lines]

\* pd.to_numeric(errors="coerce") on one cell
to_numeric(c) ==
    CASE c.t = "num" -> c
      [] c.t = "nan" -> NaN
      [] OTHER -> IF IsIntText(c.s) THEN Num(ParseInt(c.s)) ELSE NaN

\* Series.fillna(v) on one cell
fillna(c, v) == IF c.t = "nan" THEN v ELSE c

\* Series.astype(str) on one cell: a missing value becomes the text "nan"; a
\* number of a float column (a numeric column with a missing value) prints
\* with ".0"
astype_str(c, isfloat) ==
    CASE c.t = "str" -> Str(c.s)
      [] c.t = "nan" -> Str(<<"n", "a", "n">>)
      [] OTHER -> Str(IntText(c.n) \o (IF isfloat THEN <<".", "0">> ELSE <<>>))

\* ------------------------------------------------------ CSV normalization
s_item == <<"i", "t", "e", "m">>
s_qty == <<"q", "t", "y">>
s_unit_price == <<"u", "n", "i", "t", "_", "p", "r", "i", "c", "e">>
s_customer == <<"c", "u", "s", "t", "o", "m", "e", "r">>
s_threshold == <<"t", "h", "r", "e", "s", "h", "o", "l", "d">>
s_unit_cost == <<"u", "n", "i", "t", "_", "c", "o", "s", "t">>
s_category == <<"c", "a", "t", "e", "g", "o", "r", "y">>
s_vendor == <<"v", "e", "n", "d", "o", "r">>
s_amount == <<"a", "m", "o", "u", "n", "t">>
s_notes == <<"n", "o", "t", "e", "s">>
s_nan == <<"n", "a", "n">>

SalesMapping == <<
    [target |-> s_item, syns |-> {
        <<"p", "r", "o", "d", "u", "c", "t">>,  \* product
        <<"p", "r", "o", "d", "u", "c", "t", "_", "n", "a", "m", "e">>,  \* product_name
        <<"i", "t", "e", "m", "_", "n", "a", "m", "e">>,  \* item_name
        <<"n", "a", "m", "e">>,  \* name
        <<"s", "k", "u">>,  \* sku
        <<"t", "i", "t", "l", "e">>  \* title
    }],
    [target |-> s_qty, syns |-> {
        <<"q", "u", "a", "n", "t", "i", "t", "y">>,  \* quantity
        <<"u", "n", "i", "t", "s">>,  \* units
        <<"c", "o", "u", "n", "t">>,  \* count
        <<"q", "n", "t", "y">>,  \* qnty
        <<"q", "n", "t">>,  \* qnt
        <<"q", "t", "y", "_", "s", "o", "l", "d">>  \* qty_sold
    }],
    [target |-> s_unit_price, syns |-> {
        <<"p", "r", "i", "c", "e">>,  \* price
        <<"r", "a", "t", "e">>,  \* rate
        <<"u", "n", "i", "t", "p", "r", "i", "c", "e">>,  \* unitprice
        <<"s", "e", "l", "l", "i", "n", "g", "_", "p", "r", "i", "c", "e">>,  \* selling_price
        <<"m", "r", "p">>,  \* mrp
        <<"u", "n", "i", "t", "_", "c", "o", "s", "t">>  \* unit_cost
    }],
    [target |-> s_customer, syns |-> {
        <<"c", "u", "s", "t", "o", "m", "e", "r", "_", "n", "a", "m", "e">>,  \* customer_name
        <<"c", "l", "i", "e", "n", "t">>,  \* client
        <<"b", "u", "y", "e", "r">>,  \* buyer
        <<"m", "e", "m", "b", "e", "r">>,  \* member
        <<"p", "a", "r", "t", "y">>  \* party
    }]
>>

InventoryMapping == <<
    [target |-> s_item, syns |-> {
        <<"i", "t", "e", "m", "_", "n", "a", "m", "e">>,  \* item_name
        <<"p", "r", "o", "d", "u", "c", "t">>,  \* product
        <<"n", "a", "m", "e">>,  \* name
        <<"s", "k", "u">>,  \* sku
        <<"t", "i", "t", "l", "e">>  \* title
    }],
    [target |-> s_qty, syns |-> {
        <<"q", "u", "a", "n", "t", "i", "t", "y">>,  \* quantity
        <<"s", "t", "o", "c", "k">>,  \* stock
        <<"o", "n", "_", "h", "a", "n", "d">>,  \* on_hand
        <<"u", "n", "i", "t", "s">>  \* units
    }],
    [target |-> s_threshold, syns |-> {
        <<"r", "e", "o", "r", "d", "e", "r", "_", "l", "e", "v", "e", "l">>,  \* reorder_level
        <<"r", "e", "o", "r", "d", "e", "r", "_", "p", "o", "i", "n", "t">>,  \* reorder_point
        <<"m", "i", "n", "_", "q", "t", "y">>,  \* min_qty
        <<"m", "i", "n", "_", "s", "t", "o", "c", "k">>  \* min_stock
    }],
    [target |-> s_unit_cost, syns |-> {
        <<"c", "o", "s", "t">>,  \* cost
        <<"p", "u", "r", "c", "h", "a", "s", "e", "_", "p", "r", "i", "c", "e">>,  \* purchase_price
        <<"u", "n", "i", "t", "p", "r", "i", "c", "e">>,  \* unitprice
        <<"b", "a", "s", "e", "_", "c", "o", "s", "t">>  \* base_cost
    }]
>>

ExpensesMapping == <<
    [target |-> s_category, syns |-> {
        <<"t", "y", "p", "e">>,  \* type
        <<"h", "e", "a", "d">>,  \* head
        <<"e", "x", "p", "e", "n", "s", "e", "_", "c", "a", "t", "e", "g", "o", "r", "y">>  \* expense_category
    }],
    [target |-> s_vendor, syns |-> {
        <<"s", "u", "p", "p", "l", "i", "e", "r">>,  \* supplier
        <<"p", "a", "r", "t", "y">>,  \* party
        <<"p", "a", "y", "e", "e">>,  \* payee
        <<"s", "e", "l", "l", "e", "r">>  \* seller
    }],
    [target |-> s_amount, syns |-> {
        <<"a", "m", "t">>,  \* amt
        <<"v", "a", "l", "u", "e">>,  \* value
        <<"c", "o", "s", "t">>,  \* cost
        <<"p", "r", "i", "c", "e">>,  \* price
        <<"t", "o", "t", "a", "l">>,  \* total
        <<"e", "x", "p", "e", "n", "s", "e">>  \* expense
    }],
    [target |-> s_notes, syns |-> {
        <<"n", "o", "t", "e">>,  \* note
        <<"r", "e", "m", "a", "r", "k">>,  \* remark
        <<"r", "e", "m", "a", "r", "k", "s">>,  \* remarks
        <<"d", "e", "s", "c", "r", "i", "p", "t", "i", "o", "n">>  \* description
    }]
>>

\* variant of _clean_cols: hyphens are left as they are
_clean_cols_no_hyphen(cols) ==
    [j \in 1..Len(cols) |-> Replace(Lower(Strip(cols[j])), " ", "_")]

_clean_cols(cols) ==
    [j \in 1..Len(cols) |->
        Replace(Replace(Lower(Strip(cols[j])), " ", "_"), "-", "_")]

\* rename_map[c]: the target of the last mapping entry that c matches
RenameTarget(c, mapping) ==
    LET hits == {k \in 1..Len(mapping) :
                    c = mapping[k].target \/ c \in mapping[k].syns}
    IN  IF hits = {} THEN c
        ELSE mapping[CHOOSE k \in hits : \A h \in hits : h <= k].target

_rename_with_synonyms(df, mapping) ==
    LET cols == _clean_cols(df.columns)
    IN  [df EXCEPT !.columns = [j \in 1..Len(cols) |-> RenameTarget(cols[j], mapping)]]

ColIdx(df, name) == {j \in 1..Len(df.columns) : df.columns[j] = name}

\* "if col not in df.columns: df[col] = default", for each col of targets in order
RECURSIVE EnsureColumns(_, _, _)
EnsureColumns(df, targets, textcols) ==
    IF targets = <<>> THEN df
    ELSE LET col == Head(targets)
             dflt == IF col \in textcols THEN Str(<<>>) ELSE Num(0)
             df1 == IF ColIdx(df, col) # {} THEN df
                    ELSE [df EXCEPT !.columns = Append(@, col),
                                    !.rows = [i \in 1..Len(@) |-> Append(@[i], dflt)]]
         IN  EnsureColumns(df1, Tail(targets), textcols)

\* df[name] is a Series only when one column carries the name; with two it is
\* a DataFrame, and .str or pd.to_numeric raise on it
Ambiguous(df, targets) ==
    \E k \in 1..Len(targets) : Cardinality(ColIdx(df, targets[k])) > 1

Cell(df, i, name) == df.rows[i][CHOOSE j \in ColIdx(df, name) : TRUE]

IsFloatCol(df, name) ==
    /\ \A i \in 1..Len(df.rows) : Cell(df, i, name).t \in {"num", "nan"}
    /\ \E i \in 1..Len(df.rows) : Cell(df, i, name).t = "nan"

\* df[name].astype(str).str.strip() on row i
TextOf(df, i, name) == Strip(astype_str(Cell(df, i, name), IsFloatCol(df, name)).s)

\* pd.to_numeric(df[name], errors="coerce").fillna(v) on row i
NumOf(df, i, name, v) == fillna(to_numeric(Cell(df, i, name)), Num(v)).n

Failed == [ok |-> FALSE, rows |-> <<>>]

SalesTargets == <<s_item, s_qty, s_unit_price, s_customer>>

\* the coercions of row i of the DataFrame, its index kept
SalesRow(df, i) ==
    [idx |-> i,
     item |-> TextOf(df, i, s_item),
     qty |-> NumOf(df, i, s_qty, 1),
     unit_price |-> NumOf(df, i, s_unit_price, 0),
     customer |-> TextOf(df, i, s_customer)]

\* variant of SalesKeep: a quantity of zero passes
SalesKeep_nonneg(row) == Len(row.item) > 0 /\ row.qty >= 0

\* the filters
SalesKeep(row) == Len(row.item) > 0 /\ row.qty > 0

SalesCoerceFilter(df) ==
    IF Ambiguous(df, SalesTargets) THEN Failed
    ELSE [ok |-> TRUE,
          rows |-> SelectSeq([i \in 1..Len(df.rows) |-> SalesRow(df, i)], SalesKeep)]

_normalize_sales_df(df) ==
    SalesCoerceFilter(EnsureColumns(_rename_with_synonyms(df, SalesMapping),
                                    SalesTargets, {s_item, s_customer}))

InventoryTargets == <<s_item, s_qty, s_threshold, s_unit_cost>>

InventoryRow(df, i) ==
    [idx |-> i,
     item |-> TextOf(df, i, s_item),
     qty |-> NumOf(df, i, s_qty, 0),
     threshold |-> NumOf(df, i, s_threshold, 0),
     unit_cost |-> NumOf(df, i, s_unit_cost, 0)]

InventoryKeep(row) == Len(row.item) > 0

InventoryCoerceFilter(df) ==
    IF Ambiguous(df, InventoryTargets) THEN Failed
    ELSE [ok |-> TRUE,
          rows |-> SelectSeq([i \in 1..Len(df.rows) |-> InventoryRow(df, i)],
                             InventoryKeep)]

_normalize_inventory_df(df) ==
    InventoryCoerceFilter(EnsureColumns(_rename_with_synonyms(df, InventoryMapping),
                                        InventoryTargets, {s_item}))

ExpensesTargets == <<s_category, s_vendor, s_amount, s_notes>>

ExpensesRow(df, i) ==
    [idx |-> i,
     category |-> TextOf(df, i, s_category),
     vendor |-> TextOf(df, i, s_vendor),
     amount |-> NumOf(df, i, s_amount, 0),
     notes |-> TextOf(df, i, s_notes)]

ExpensesKeep(row) == Len(row.category) > 0 /\ row.amount > 0

ExpensesCoerceFilter(df) ==
    IF Ambiguous(df, ExpensesTargets) THEN Failed
    ELSE [ok |-> TRUE,
          rows |-> SelectSeq([i \in 1..Len(df.rows) |-> ExpensesRow(df, i)],
                             ExpensesKeep)]

_normalize_expenses_df(df) ==
    ExpensesCoerceFilter(EnsureColumns(_rename_with_synonyms(df, ExpensesMapping),
                                       ExpensesTargets, {s_category, s_vendor, s_notes}))

\* ----------------------------------------------------- process_csv_upload
Normalize(data_type, df) ==
    CASE data_type = "Sales" -> _normalize_sales_df(df)
      [] data_type = "Inventory" -> _normalize_inventory_df(df)
      [] OTHER -> _normalize_expenses_df(df)

\* pd.read_excel: every cell has the type the sheet gives it
read_excel(raw) ==
    LET ncols == Len(raw.header)
        nrows == Len(raw.rows)
        cell(i, j) == IF raw.rows[i][j] = <<>> THEN NaN
                      ELSE IF IsIntText(raw.rows[i][j]) THEN Num(ParseInt(raw.rows[i][j]))
                      ELSE Str(raw.rows[i][j])
    IN  [columns |-> raw.header,
         rows |-> [i \in 1..nrows |-> [j \in 1..ncols |-> cell(i, j)]],
         lines |-> [i \in 1..nrows |-> i]]

\* "try read_csv, except read_excel"; kind says what the bytes parse as
\* variant of ReadUpload: no second attempt with read_excel
ReadUpload_no_fallback(file) ==
    CASE file.kind = "csv" -> [ok |-> TRUE, df |-> read_csv(file)]
      [] OTHER -> [ok |-> FALSE, df |-> [columns |-> <<>>, rows |-> <<>>]]

ReadUpload(file) ==
    CASE file.kind = "csv" -> [ok |-> TRUE, df |-> read_csv(file)]
      [] file.kind = "xlsx" -> [ok |-> TRUE, df |-> read_excel(file)]
      [] OTHER -> [ok |-> FALSE, df |-> [columns |-> <<>>, rows |-> <<>>]]

\* the row loops: one service call, hence one session and one commit, per
\* row; a call that raises is skipped and the loop goes on.  acc is the store
\* and the success counter so far, fails[k] is where the k-th call fails, if
\* it does.
Tally(acc, idx, r) ==
    [db |-> r.db,
     success |-> acc.success + (IF r.raised THEN 0 ELSE 1),
     log |-> Append(acc.log, [idx |-> idx, raised |-> r.raised, db |-> r.db])]

\* variant of SaleTotal: the sum instead of the product
SaleTotal_sum(qty, price) == qty + price

\* total = qty * price
SaleTotal(qty, price) == qty * price

\* variant of ImportSalesRows: the loop ends at the first row that fails
RECURSIVE ImportSalesRows_stops(_, _, _)
ImportSalesRows_stops(acc, rows, fails) ==
    IF rows = <<>> THEN acc
    ELSE LET t == Tally(acc, Head(rows).idx,
                        add_sale(acc.db, Head(rows).item, Head(rows).qty,
                                 Head(rows).unit_price,
                                 SaleTotal(Head(rows).qty, Head(rows).unit_price),
                                 Head(rows).customer, Head(fails)))
         IN  IF Head(fails) # "none" THEN t
             ELSE ImportSalesRows_stops(t, Tail(rows), Tail(fails))

RECURSIVE ImportSalesRows(_, _, _)
ImportSalesRows(acc, rows, fails) ==
    IF rows = <<>> THEN acc
    ELSE ImportSalesRows(
             Tally(acc, Head(rows).idx,
                   add_sale(acc.db, Head(rows).item, Head(rows).qty,
                            Head(rows).unit_price,
                            SaleTotal(Head(rows).qty, Head(rows).unit_price),
                            Head(rows).customer, Head(fails))),
             Tail(rows), Tail(fails))

RECURSIVE ImportInventoryRows(_, _, _)
ImportInventoryRows(acc, rows, fails) ==
    IF rows = <<>> THEN acc
    ELSE ImportInventoryRows(
             Tally(acc, Head(rows).idx,
                   add_stock_safe(acc.db, Head(rows).item, Head(rows).qty,
                                  Head(rows).threshold, Head(rows).unit_cost,
                                  Head(fails))),
             Tail(rows), Tail(fails))

RECURSIVE ImportExpensesRows(_, _, _)
ImportExpensesRows(acc, rows, fails) ==
    IF rows = <<>> THEN acc
    ELSE ImportExpensesRows(
             Tally(acc, Head(rows).idx,
                   add_expense(acc.db, Head(rows).category, Head(rows).vendor,
                               Head(rows).amount, Head(rows).notes, Head(fails))),
             Tail(rows), Tail(fails))

ImportRows(acc, data_type, rows, fails) ==
    CASE data_type = "Sales" -> ImportSalesRows(acc, rows, fails)
      [] data_type = "Inventory" -> ImportInventoryRows(acc, rows, fails)
      [] OTHER -> ImportExpensesRows(acc, rows, fails)

ReadAndNormalize(data_type, rd) ==
    IF rd.ok THEN Normalize(data_type, rd.df) ELSE Failed

\* variant of process_csv_upload: one transaction spans the rows, and a row
\* that fails takes the rows before it along
process_csv_upload_one_transaction(d, data_type, norm, fails) ==
    IF ~norm.ok
    THEN [db |-> d, success |-> 0, log |-> <<>>, error |-> TRUE, norm |-> <<>>]
    ELSE LET r == ImportRows([db |-> d, success |-> 0, log |-> <<>>], data_type,
                             norm.rows, fails)
         IN  [error |-> FALSE, norm |-> norm.rows,
              db |-> IF \E k \in 1..Len(fails) : fails[k] # "none" THEN d ELSE r.db,
              success |-> r.success, log |-> r.log]

\* The second half of process_csv_upload, on the normalized rows.  error: the
\* outer "except Exception" was taken (st.error); otherwise success is the
\* count that st.success reports
process_csv_upload(d, data_type, norm, fails) ==
    IF ~norm.ok
    THEN [db |-> d, success |-> 0, log |-> <<>>, error |-> TRUE, norm |-> <<>>]
    ELSE [error |-> FALSE, norm |-> norm.rows] @@
         ImportRows([db |-> d, success |-> 0, log |-> <<>>], data_type,
                    norm.rows, fails)

\* ----------------------------------------------------------- form inputs
FormItems == {Sugar, Salt, Empty}
FormQtys == {0, 1, 2}
FormPrices == {0, 50}
FormCustomers == {John}
\* (qty, threshold, unit_cost) entered in the inventory form
FormStock == {<<10, 5, 40>>, <<1, 2, 8>>}
\* an option of the category selectbox: an icon, a space, the category
FormCategories == {<<"*", " ", "F", "u", "e", "l">>}
FormAmounts == {0, 100}

\* ---------------------------------------------------------- uploaded files
SalesFile ==
    [kind |-> "csv",
     header |-> <<<<"P", "r", "o", "d", "u", "c", "t", " ", "N", "a", "m", "e">>,
                  <<"Q", "t", "y">>, <<"P", "r", "i", "c", "e">>>>,
     rows |-> <<<<Sugar, IntText(2), IntText(50)>>,
                <<Empty, IntText(1), IntText(50)>>,
                <<Salt, IntText(0), IntText(50)>>,
                <<Salt, IntText(1), <<"a", "b", "c">>>>>>]

InventoryFile ==
    [kind |-> "xlsx",
     header |-> <<<<"S", "K", "U">>, <<"S", "t", "o", "c", "k">>,
                  <<"M", "i", "n", "-", "Q", "t", "y">>, <<"C", "o", "s", "t">>>>,
     rows |-> <<<<Salt, IntText(6), IntText(5), IntText(8)>>,
                <<Salt, IntText(5), IntText(5), IntText(8)>>>>]

ExpensesFile ==
    [kind |-> "csv",
     header |-> <<<<"T", "y", "p", "e">>, <<"A", "m", "t">>>>,
     rows |-> <<<<Fuel, IntText(100)>>, <<Fuel, IntText(0)>>>>]

BadFile == [kind |-> "bad", header |-> <<>>, rows |-> <<>>]

UploadFiles == {SalesFile, InventoryFile, ExpensesFile, BadFile}

DataTypes == {"Sales", "Inventory", "Expenses"}

\* what the first half of process_csv_upload makes of each upload: the file
\* read and normalized for the selected data type
Uploads ==
    {[file |-> f, data_type |-> t, norm |-> ReadAndNormalize(t, ReadUpload(f))] :
        f \in UploadFiles, t \in DataTypes}

ImportFailPoints == {"none", "commit"}

EmptyDb == [sales |-> <<>>, expenses |-> <<>>, stock |-> <<>>]

Init ==
    /\ db = EmptyDb
    /\ today = Jan15
    /\ last = [op |-> "init"]
    /\ nops = 0
    /\ calls = NoCalls

\* Dashboard.show_sales: the sale form
ManualSale ==
    /\ nops < MaxOps
    /\ \E item \in FormItems, qty \in FormQtys, unit_price \in FormPrices,
          customer \in FormCustomers, fail \in SaleFailPoints :
          /\ item # Empty /\ qty > 0 /\ unit_price > 0
          /\ LET total == SaleTotal(qty, unit_price)
                 r == add_sale(db, item, qty, unit_price, total, customer, fail)
             IN  /\ db' = r.db
                 /\ last' = [op |-> "add_sale", item |-> item, qty |-> qty,
                             unit_price |-> unit_price, total |-> total,
                             customer |-> customer, fail |-> fail,
                             raised |-> r.raised, ret |-> r.ret]
    /\ nops' = nops + 1
    /\ UNCHANGED <<today, calls>>

\* category.split(" ", 1)[1] if " " in category else category
CleanCategory(category) ==
    IF \E i \in 1..Len(category) : category[i] = " "
    THEN LET k == CHOOSE i \in 1..Len(category) :
                     category[i] = " " /\ \A j \in 1..(i - 1) : category[j] # " "
         IN  SubSeq(category, k + 1, Len(category))
    ELSE category

\* Dashboard.show_expenses: the expense form
ManualExpense ==
    /\ nops < MaxOps
    /\ \E category \in FormCategories, amount \in FormAmounts,
          fail \in ExpenseFailPoints :
          /\ amount > 0
          /\ LET clean_category == CleanCategory(category)
                 r == add_expense(db, clean_category, Empty, amount, Empty, fail)
             IN  /\ db' = r.db
                 /\ last' = [op |-> "add_expense", category |-> clean_category,
                             vendor |-> Empty, amount |-> amount, notes |-> Empty,
                             fail |-> fail, raised |-> r.raised]
    /\ nops' = nops + 1
    /\ UNCHANGED <<today, calls>>

\* the form was last submitted with these same values, and that call returned
SameCallAgain(item, s) ==
    /\ last.op = "add_stock_safe"
    /\ ~last.raised
    /\ last.item = item
    /\ <<last.qty, last.threshold, last.unit_cost>> = s

\* Dashboard.show_inventory: the inventory form
ManualStock ==
    /\ nops < MaxOps
    /\ \E item \in FormItems, s \in FormStock, fail \in StockFailPoints :
          /\ item # Empty /\ s[1] >= 0 /\ s[2] >= 0
          /\ LET r == add_stock_safe(db, item, s[1], s[2], s[3], fail)
             IN  /\ db' = r.db
                 /\ last' = [op |-> "add_stock_safe", item |-> item, qty |-> s[1],
                             threshold |-> s[2], unit_cost |-> s[3],
                             fail |-> fail, raised |-> r.raised, ret |-> r.ret,
                             created |-> r.created,
                             again |-> SameCallAgain(item, s)]
    /\ nops' = nops + 1
    /\ UNCHANGED <<today, calls>>

\* StockService.update_stock, as the tests call it; first is what the first
\* definition of the class makes of the same call on the same store
UpdateStock ==
    /\ nops < MaxOps
    /\ \E item \in FormItems \ {Empty}, s \in FormStock, fail \in StockFailPoints :
          LET r == update_stock(db, item, s[1], s[2], s[3], fail)
              first == update_stock_first(db, item, s[1], s[2], s[3], fail)
          IN  /\ db' = r.db
              /\ last' = [op |-> "update_stock", item |-> item, qty |-> s[1],
                          threshold |-> s[2], unit_cost |-> s[3],
                          fail |-> fail, raised |-> r.raised,
                          first |-> [db |-> first.db, raised |-> first.raised]]
    /\ nops' = nops + 1
    /\ UNCHANGED <<today, calls>>

\* Dashboard.show_settings: the import button
Import ==
    /\ nops < MaxOps
    /\ \E u \in Uploads :
       \E fails \in [1..Len(u.norm.rows) -> ImportFailPoints] :
          LET r == process_csv_upload(db, u.data_type, u.norm, fails)
          IN  /\ db' = r.db
              /\ last' = [op |-> "import", data_type |-> u.data_type, file |-> u.file,
                          error |-> r.error, success |-> r.success,
                          log |-> r.log, norm |-> r.norm]
    /\ nops' = nops + 1
    /\ UNCHANGED <<today, calls>>

\* Dashboard.show_settings: the sample data button; again tells that the
\* button was pressed last time too and that call returned
LoadSampleData ==
    /\ nops < MaxOps
    /\ \E fail \in SampleFailPoints :
          LET r == load_sample_data(db, fail)
          IN  /\ db' = r.db
              /\ last' = [op |-> "load_sample_data", fail |-> fail,
                          raised |-> r.raised,
                          again |-> (last.op = "load_sample_data" /\ ~last.raised)]
    /\ nops' = nops + 1
    /\ UNCHANGED <<today, calls>>

\* the next calendar day begins
Tick ==
    /\ nops < MaxOps
    /\ today < Jan15 + MaxDays
    /\ today' = today + 1
    /\ last' = [op |-> "tick"]
    /\ nops' = nops + 1
    /\ UNCHANGED <<db, calls>>

Next ==
    \/ ManualSale
    \/ ManualExpense
    \/ ManualStock
    \/ UpdateStock
    \/ Import
    \/ LoadSampleData
    \/ Tick

Spec == Init /\ [][Next]_vars

\* --------------------------------------------------- the normalizer alone
\* An uploaded file: a header line and rows of fields, as text.
MaxCols == 2
MaxRows == 2

HeaderPool == {
    <<"P", "r", "o", "d", "u", "c", "t", " ", "N", "a", "m", "e">>,
    <<"p", "r", "o", "d", "u", "c", "t", "-", "n", "a", "m", "e">>,
    <<"P", "R", "O", "D", "U", "C", "T", "_", "N", "A", "M", "E">>,
    <<" ", "S", "K", "U", " ">>,
    <<"Q", "t", "y">>,
    <<"P", "r", "i", "c", "e">>,
    <<"T", "y", "p", "e">>,
    <<"M", "i", "n", "-", "Q", "t", "y">>
}

FieldPool == {
    <<>>,
    <<" ">>,
    <<" ", "T", "e", "a", " ">>,
    <<"2">>,
    <<"0">>,
    <<"-", "1">>
}

RawFiles ==
    UNION {[header : [1..nc -> HeaderPool], rows : [1..nr -> [1..nc -> FieldPool]]] :
              nc \in 1..MaxCols, nr \in 1..MaxRows}

NormInit ==
    /\ db = EmptyDb
    /\ calls = NoCalls
    /\ today = Jan15
    /\ nops = 0
    /\ \E data_type \in DataTypes, raw \in RawFiles :
          last = [op |-> "upload", data_type |-> data_type, raw |-> raw]

\* the file is read and normalized for the selected data type
NormalizeStep ==
    /\ last.op = "upload"
    /\ LET df == read_csv(last.raw)
       IN  last' = [op |-> "normalize", data_type |-> last.data_type,
                    raw |-> last.raw, df |-> df,
                    out |-> Normalize(last.data_type, df)]
    /\ UNCHANGED <<db, today, nops, calls>>

NormNext == NormalizeStep

SpecNorm == NormInit /\ [][NormNext]_vars

\* ------------------------------------------------------- the read queries
\* str() of a float that holds a whole number, as an f-string prints it
FloatText(n) == IntText(n) \o <<".", "0">>

\* f"{stock.item}: {stock.qty} left; threshold {stock.threshold}"
AlertText(stock) ==
    stock.item \o <<":", " ">> \o FloatText(stock.qty)
        \o <<" ", "l", "e", "f", "t", ";", " ",
             "t", "h", "r", "e", "s", "h", "o", "l", "d", " ">>
        \o FloatText(stock.threshold)

IsLow(stock) == stock.qty <= stock.threshold

\* the alert of the first definition of the class; "!" stands for its
\* warning sign
AlertText_first(item) ==
    <<"!", " ">> \o item.item \o <<":", " ", "O", "n", "l", "y", " ">>
        \o FloatText(item.qty)
        \o <<" ", "l", "e", "f", "t", " ", "(",
             "t", "h", "r", "e", "s", "h", "o", "l", "d", ":", " ">>
        \o FloatText(item.threshold) \o <<")">>

\* get_low_stock_alerts of the first definition: the rows are filtered by
\* the query, filter(Stock.qty <= Stock.threshold)
get_low_stock_alerts_first(d) ==
    LET low_stock_items == SelectSeq(d.stock, LAMBDA row : row.qty <= row.threshold)
    IN  [k \in 1..Len(low_stock_items) |-> AlertText_first(low_stock_items[k])]

\* variant of IsLow: a quantity equal to the threshold is not low
IsLow_strict(stock) == stock.qty < stock.threshold

\* variant of get_low_stock_alerts: the comparison is strict
get_low_stock_alerts_strict(d) ==
    LET low == SelectSeq(d.stock, IsLow_strict)
    IN  [k \in 1..Len(low) |-> AlertText(low[k])]

\* StockService.get_low_stock_alerts (the definition in force, the second)
get_low_stock_alerts(d) ==
    LET low == SelectSeq(d.stock, IsLow)
    IN  [k \in 1..Len(low) |-> AlertText(low[k])]

\* timedelta(days=7) of the forecast window, and the factor of the forecast
ForecastDays == 7
ForecastFactor == 7

\* a number that need not be whole, as numerator and denominator; SQL NULL
\* (Python None) has denominator 0
Frac(n, d) == [num |-> n, den |-> d]

None == Frac(0, 0)

RECURSIVE SumTotal(_)
SumTotal(rows) == IF rows = <<>> THEN 0 ELSE Head(rows).total + SumTotal(Tail(rows))

\* func.avg over rows: NULL when there is no row
Avg(rows) == IF rows = <<>> THEN None ELSE Frac(SumTotal(rows), Len(rows))

\* "result or 0.0": None and 0.0 are both falsy
OrZero(x) == IF x.den = 0 \/ x.num = 0 THEN Frac(0, 1) ELSE x

InWindow(sale) == sale.date >= Today - ForecastDays

\* variant of get_sales_forecast: no filter on the date
get_sales_forecast_all_time(d) ==
    LET result == Avg(d.sales)
    IN  Frac(OrZero(result).num * ForecastFactor, OrZero(result).den)

\* AnalyticsService.get_sales_forecast
get_sales_forecast(d) ==
    LET result == Avg(SelectSeq(d.sales, InWindow))
    IN  Frac(OrZero(result).num * ForecastFactor, OrZero(result).den)

\* .limit(5) of get_top_items
TopN == 5

RECURSIVE SumQty(_, _)
SumQty(rows, item) ==
    IF rows = <<>> THEN 0
    ELSE (IF Head(rows).item = item THEN Head(rows).qty ELSE 0) + SumQty(Tail(rows), item)

RECURSIVE CountRows(_, _)
CountRows(rows, item) ==
    IF rows = <<>> THEN 0
    ELSE (IF Head(rows).item = item THEN 1 ELSE 0) + CountRows(Tail(rows), item)

\* group_by(Sale.item) with func.sum(Sale.qty)
GroupByItem(rows) ==
    {[item |-> it, qty |-> SumQty(rows, it)] : it \in {rows[i].item : i \in 1..Len(rows)}}

\* ORDER BY qty DESC LIMIT n: the rows with the largest qty first; SQL leaves
\* the order among equal qty open, so this is the set of possible results
RECURSIVE OrderByLimit(_, _)
OrderByLimit(groups, n) ==
    IF n = 0 \/ groups = {} THEN {<<>>}
    ELSE UNION {{<<g>> \o rest : rest \in OrderByLimit(groups \ {g}, n - 1)} :
                   g \in {h \in groups : \A o \in groups : o.qty <= h.qty}}

\* variant of get_top_items: the rows of an item are counted, not their qty summed
get_top_items_by_rows(d) ==
    OrderByLimit({[item |-> it, qty |-> CountRows(d.sales, it)] :
                     it \in {d.sales[i].item : i \in 1..Len(d.sales)}}, TopN)

\* AnalyticsService.get_top_items: the DataFrames the query can return
get_top_items(d) == OrderByLimit(GroupByItem(d.sales), TopN)

RECURSIVE SumAmount(_)
SumAmount(rows) == IF rows = <<>> THEN 0 ELSE Head(rows).amount + SumAmount(Tail(rows))

\* variant of get_todays_sales: no filter on the date
get_todays_sales_all_dates(d) ==
    LET rows == d.sales
        result == IF rows = <<>> THEN None ELSE Frac(SumTotal(rows), 1)
    IN  OrZero(result)

\* AnalyticsService.get_todays_sales: func.sum is NULL when no row matches
get_todays_sales(d) ==
    LET rows == SelectSeq(d.sales, LAMBDA row : row.date = Today)
        result == IF rows = <<>> THEN None ELSE Frac(SumTotal(rows), 1)
    IN  OrZero(result)

\* AnalyticsService.get_todays_expenses
get_todays_expenses(d) ==
    LET rows == SelectSeq(d.expenses, LAMBDA row : row.date = Today)
        result == IF rows = <<>> THEN None ELSE Frac(SumAmount(rows), 1)
    IN  OrZero(result)

\* AnalyticsService.get_net_profit: the difference of the two queries
get_net_profit(d) ==
    LET s == get_todays_sales(d)
        e == get_todays_expenses(d)
    IN  Frac(s.num * e.den - e.num * s.den, s.den * e.den)

\* ---------------------------------------------- the read queries on a store
\* The stores the queries are run on: sales recorded over the last days and
\* sample sales, each up to MaxCopies times, and a stock table.
MaxCopies == 1

Oil == <<"O", "i", "l">>
Milk == <<"M", "i", "l", "k">>

\* the day the queries are run: a week after the later sample date
QueryDay == Jan16 + ForecastDays

RecordedSales == <<
    SampleSales[1], SampleSales[2], SampleSales[3],
    [item |-> Sugar, qty |-> 1, unit_price |-> 50, total |-> 50,
     customer |-> John, date |-> QueryDay],
    [item |-> Salt, qty |-> 1, unit_price |-> 50, total |-> 50,
     customer |-> John, date |-> QueryDay - 1],
    [item |-> Oil, qty |-> 2, unit_price |-> 50, total |-> 100,
     customer |-> Empty, date |-> QueryDay],
    [item |-> Milk, qty |-> 1, unit_price |-> 0, total |-> 0,
     customer |-> Empty, date |-> Jan16],
    [item |-> Tea, qty |-> 1, unit_price |-> 50, total |-> 50,
     customer |-> John, date |-> Jan15]
>>

RECURSIVE Copies(_, _)
Copies(row, n) == IF n = 0 THEN <<>> ELSE <<row>> \o Copies(row, n - 1)

RECURSIVE Expand(_, _, _)
Expand(pool, k, mult) ==
    IF k > Len(pool) THEN <<>>
    ELSE Copies(pool[k], mult[k]) \o Expand(pool, k + 1, mult)

\* the primary keys, in the order of insertion
WithIds(rows) ==
    [i \in 1..Len(rows) |-> [id |-> i] @@ rows[i]]

SalesTables ==
    {WithIds(Expand(RecordedSales, 1, mult)) :
        mult \in [1..Len(RecordedSales) -> 0..MaxCopies]}

\* expenses recorded today and the day before
RecordedExpenses == <<
    [category |-> Fuel, vendor |-> Empty, amount |-> 100, date |-> QueryDay,
     notes |-> Empty],
    [category |-> Fuel, vendor |-> Empty, amount |-> 30, date |-> QueryDay - 1,
     notes |-> Empty]
>>

ExpenseTables ==
    {WithIds(Expand(RecordedExpenses, 1, mult)) :
        mult \in [1..Len(RecordedExpenses) -> 0..MaxCopies]}

StockLevels == {<<5, 5>>, <<6, 5>>, <<0 - 1, 2>>}

StockRow(item, level) ==
    [item |-> item, qty |-> level[1], threshold |-> level[2], unit_cost |-> 8,
     last_updated |-> Jan15]

StockTables ==
    {WithIds(a \o b) :
        a \in {<<>>} \cup {<<StockRow(Sugar, l)>> : l \in StockLevels},
        b \in {<<>>} \cup {<<StockRow(Salt, l)>> : l \in StockLevels}}

QueryInit ==
    /\ today = QueryDay
    /\ calls = NoCalls
    /\ nops = 0
    /\ last = [op |-> "init"]
    /\ \E sales \in SalesTables, expenses \in ExpenseTables, stock \in StockTables :
          db = [sales |-> sales, expenses |-> expenses, stock |-> stock]

\* Dashboard.show_dashboard: the row of KPI metrics
ShowDashboard ==
    /\ nops = 0
    /\ last' = [op |-> "show_dashboard",
                todays_sales |-> get_todays_sales(db),
                todays_expenses |-> get_todays_expenses(db),
                net_profit |-> get_net_profit(db)]
    /\ nops' = 1
    /\ UNCHANGED <<db, today, calls>>

\* Dashboard.show_dashboard: the alerts panel
GetLowStockAlerts ==
    /\ nops = 0
    /\ last' = [op |-> "get_low_stock_alerts", alerts |-> get_low_stock_alerts(db)]
    /\ nops' = 1
    /\ UNCHANGED <<db, today, calls>>

\* Dashboard.show_reports: the forecast tab
GetSalesForecast ==
    /\ nops = 0
    /\ last' = [op |-> "get_sales_forecast", forecast |-> get_sales_forecast(db)]
    /\ nops' = 1
    /\ UNCHANGED <<db, today, calls>>

\* Dashboard.show_reports: the top items tab
GetTopItems ==
    /\ nops = 0
    /\ \E top_items \in get_top_items(db) :
          last' = [op |-> "get_top_items", top_items |-> top_items]
    /\ nops' = 1
    /\ UNCHANGED <<db, today, calls>>

QueryNext ==
    \/ ShowDashboard
    \/ GetLowStockAlerts
    \/ GetSalesForecast
    \/ GetTopItems

SpecQuery == QueryInit /\ [][QueryNext]_vars

\* ------------------------------------------------- sessions, step by step
\* A service call taken apart: session = self.Session(), the body of the
\* try, session.commit(), the except clause, the finally clause.  Two callers
\* run their calls against one store, interleaved step by step.
MaxCalls == 3

WriteOps == {"add_sale", "add_expense", "add_stock_safe", "update_stock"}

ReadOps == {"get_stock", "get_low_stock_alerts", "get_sales_forecast"}

\* the calls a caller makes: the service method and its arguments
ServiceCalls ==
    {[op |-> "add_sale", item |-> Sugar, s |-> <<1, 50, 50>>],
     [op |-> "add_expense", item |-> Fuel, s |-> <<100, 0, 0>>]}
    \cup {[op |-> o, item |-> Sugar, s |-> s] :
              o \in {"add_stock_safe", "update_stock"}, s \in FormStock}
    \cup {[op |-> o, item |-> Empty, s |-> <<0, 0, 0>>] : o \in ReadOps}

\* session = self.Session()
OpenSession(c) ==
    /\ nops < MaxCalls
    /\ calls[c].pc \in {"idle", "returned"}
    /\ \E call \in ServiceCalls :
          calls' = [calls EXCEPT ![c] =
                       [op |-> call.op, item |-> call.item, s |-> call.s,
                        pc |-> "try", session |-> "open", found |-> 0 - 1,
                        raised |-> FALSE, rolled_back |-> FALSE]]
    /\ nops' = nops + 1
    /\ UNCHANGED <<db, today, last>>

\* SQLite admits one writer: add_sale has flushed its INSERT (the autoflush
\* of its Stock query) and holds the write lock until its transaction ends
Locked(c) ==
    \E o \in Callers \ {c} :
        calls[o].pc \in {"commit", "except"} /\ calls[o].op = "add_sale"

\* the id of the row that filter_by(item=item).first() returns, 0 for None
\* (a call that has not made the query yet holds -1)
FoundId(d, item) ==
    IF FirstStock(d.stock, item) = 0 THEN 0
    ELSE d.stock[FirstStock(d.stock, item)].id

\* the body of the try up to the commit: the rows are added to the session
\* and, for a sale or an upsert, the Stock row is looked up; a read runs its
\* query.  Any statement may raise; a write that finds the store locked
\* waits or raises.
TryBody(c) ==
    /\ calls[c].pc = "try"
    /\ \E fail \in BOOLEAN :
          /\ (calls[c].op = "add_sale" /\ Locked(c)) => fail
          /\ calls' = [calls EXCEPT
                ![c].raised = fail,
                ![c].found = IF fail THEN @ ELSE FoundId(db, calls[c].item),
                ![c].pc = CASE calls[c].op \in ReadOps -> "finally"
                            [] fail -> "except"
                            [] OTHER -> "commit"]
    /\ UNCHANGED <<db, today, last, nops>>

\* the flush of session.commit(): the pending INSERT and UPDATE statements
\* run against the store as it is now
Flush(d, call) ==
    LET s == call.s
        i == CHOOSE k \in 1..Len(d.stock) : d.stock[k].id = call.found
        upd == [d EXCEPT !.stock[i].qty = s[1],
                         !.stock[i].threshold = s[2],
                         !.stock[i].unit_cost = s[3],
                         !.stock[i].last_updated = Today]
        stock == [id |-> NextId(d.stock), item |-> call.item, qty |-> s[1],
                  threshold |-> s[2], unit_cost |-> s[3], last_updated |-> Today]
        ins == [d EXCEPT !.stock = Append(@, stock)]
    IN  CASE call.op = "add_sale" ->
                add_sale(d, call.item, s[1], s[2], s[3], John, "none")
          [] call.op = "add_expense" ->
                add_expense(d, call.item, Empty, s[1], Empty, "none")
          [] call.found > 0 -> Returned(upd, call.found, FALSE)
          [] UniqueViolation(d.stock, call.item) -> Raised(d)
          [] OTHER -> Returned(ins, stock.id, TRUE)

\* session.commit()
CommitSession(c) ==
    /\ calls[c].pc = "commit"
    /\ \E fail \in BOOLEAN :
          LET r == Flush(db, calls[c])
          IN  /\ Locked(c) => fail
              /\ IF fail \/ r.raised
                 THEN /\ calls' = [calls EXCEPT ![c].raised = TRUE,
                                                ![c].pc = "except"]
                      /\ UNCHANGED db
                 ELSE /\ calls' = [calls EXCEPT ![c].pc = "finally"]
                      /\ db' = r.db
    /\ UNCHANGED <<today, last, nops>>

\* except Exception as e: session.rollback(); raise e
ExceptRollback(c) ==
    /\ calls[c].pc = "except"
    /\ calls' = [calls EXCEPT ![c].rolled_back = TRUE, ![c].pc = "finally"]
    /\ UNCHANGED <<db, today, last, nops>>

\* variant of FinallyClose: the session is closed only when nothing was raised
FinallyClose_on_success(c) ==
    /\ calls[c].pc = "finally"
    /\ calls' = [calls EXCEPT
                    ![c].session = IF calls[c].raised THEN "open" ELSE "closed",
                    ![c].pc = "returned"]
    /\ UNCHANGED <<db, today, last, nops>>

\* finally: session.close(); the call then returns or raises to its caller
FinallyClose(c) ==
    /\ calls[c].pc = "finally"
    /\ calls' = [calls EXCEPT ![c].session = "closed", ![c].pc = "returned"]
    /\ UNCHANGED <<db, today, last, nops>>

SessionNext ==
    \E c \in Callers :
        \/ OpenSession(c)
        \/ TryBody(c)
        \/ CommitSession(c)
        \/ ExceptRollback(c)
        \/ FinallyClose(c)

\* the callers start on the empty store of Init
SpecSession == Init /\ [][SessionNext]_vars

\* ================================================================== claims
StockRowsOf(d, item) == {i \in 1..Len(d.stock) : d.stock[i].item = item}

IdsOf(rows) == {rows[i].id : i \in 1..Len(rows)}

\* rows2 is rows with exactly one row appended
OneAppended(rows, rows2) ==
    /\ Len(rows2) = Len(rows) + 1
    /\ SubSeq(rows2, 1, Len(rows)) = rows

\* C1: in every reachable store the Stock table holds at most one row per
\* item, whatever upserts (add_stock_safe, update_stock), sales, imports and
\* sample loads came before.
C1_OneStockRowPerItem ==
    \A i, j \in 1..Len(db.stock) :
        db.stock[i].item = db.stock[j].item => i = j

\* a stock write found an existing row, among several, and updated it
C1_Witness ==
    /\ last.op \in {"add_stock_safe", "update_stock"}
    /\ ~last.raised
    /\ Len(db.stock) >= 3
    /\ \E i \in 1..Len(db.stock) :
          /\ db.stock[i].item = last.item
          /\ db.stock[i].id < Len(db.stock)

\* C2: a record_sale that returns, for an item whose Stock row holds q, adds
\* exactly one Sale row carrying the given total, returns that row's non-null
\* id, leaves the item's Stock row with q - s and every other Stock row as it
\* was.
C2_SaleDecrementsStock ==
    [][(/\ last'.op = "add_sale"
        /\ ~last'.raised
        /\ StockRowsOf(db, last'.item) # {})
       => LET i == CHOOSE k \in StockRowsOf(db, last'.item) : TRUE
              sale == db'.sales[Len(db'.sales)]
          IN  /\ OneAppended(db.sales, db'.sales)
              /\ sale.item = last'.item
              /\ sale.qty = last'.qty
              /\ sale.total = last'.total
              /\ last'.ret = sale.id
              /\ last'.ret >= 1
              /\ last'.ret \notin IdsOf(db.sales)
              /\ Len(db'.stock) = Len(db.stock)
              /\ db'.stock[i].qty = db.stock[i].qty - last'.qty
              /\ db'.stock[i].item = db.stock[i].item
              /\ db'.stock[i].id = db.stock[i].id
              /\ db'.stock[i].threshold = db.stock[i].threshold
              /\ db'.stock[i].unit_cost = db.stock[i].unit_cost
              /\ \A j \in 1..Len(db.stock) : j # i => db'.stock[j] = db.stock[j]
              /\ db'.expenses = db.expenses]_vars

\* Sugar stood at 10, a sale of 2 was recorded with total 100, Sugar is at 8
C2_Witness ==
    /\ last.op = "add_sale"
    /\ ~last.raised
    /\ last.item = Sugar /\ last.qty = 2 /\ last.total = 100
    /\ \E i \in 1..Len(db.stock) :
          db.stock[i].item = Sugar /\ db.stock[i].qty = 8
    /\ \E i \in 1..Len(db.stock) : db.stock[i].item # Sugar

\* C3: a record_sale in which any step fails (the insert, the lookup, the
\* commit) raises and leaves the store exactly as it was.
C3_SaleAllOrNothing ==
    [][last'.op = "add_sale"
       => /\ last'.fail # "none" => last'.raised
          /\ last'.raised => db' = db]_vars

\* the commit failed after the Sale insert and the decrement of an existing
\* Stock row were made in the transaction
C3_Witness ==
    /\ last.op = "add_sale"
    /\ last.raised
    /\ last.fail = "commit"
    /\ StockRowsOf(db, last.item) # {}

\* C4: record_sale for an item without a Stock row succeeds, adds one Sale
\* row and leaves the Stock table as it was.
C4_UnknownItemLeavesStock ==
    [][(/\ last'.op = "add_sale"
        /\ last'.fail = "none"
        /\ StockRowsOf(db, last'.item) = {})
       => /\ ~last'.raised
          /\ OneAppended(db.sales, db'.sales)
          /\ db'.sales[Len(db'.sales)].item = last'.item
          /\ db'.stock = db.stock]_vars

\* a sale of an item that has no Stock row, while other items have one
C4_Witness ==
    /\ last.op = "add_sale"
    /\ ~last.raised
    /\ StockRowsOf(db, last.item) = {}
    /\ db.stock # <<>>
    /\ db.sales # <<>>

\* C5: an upsert_stock that returns either overwrote qty, threshold and
\* unit_cost of the row with that item and returned its id with created =
\* FALSE, or, no such row existing, appended one row with those values and
\* returned the new id with created = TRUE; created tells whether the table
\* grew by one row.
C5_UpsertContract ==
    [][(last'.op = "add_stock_safe" /\ ~last'.raised)
       => LET found == StockRowsOf(db, last'.item)
              i == CHOOSE k \in found : TRUE
              n == Len(db'.stock)
              Holds(row) == /\ row.item = last'.item
                            /\ row.qty = last'.qty
                            /\ row.threshold = last'.threshold
                            /\ row.unit_cost = last'.unit_cost
          IN  /\ found # {} =>
                    /\ Len(db'.stock) = Len(db.stock)
                    /\ Holds(db'.stock[i])
                    /\ db'.stock[i].id = db.stock[i].id
                    /\ \A j \in 1..Len(db.stock) :
                          j # i => db'.stock[j] = db.stock[j]
                    /\ last'.ret = db.stock[i].id
                    /\ last'.created = FALSE
              /\ found = {} =>
                    /\ OneAppended(db.stock, db'.stock)
                    /\ Holds(db'.stock[n])
                    /\ last'.ret = db'.stock[n].id
                    /\ last'.ret \notin IdsOf(db.stock)
                    /\ last'.created = TRUE
              /\ last'.created <=> Len(db'.stock) = Len(db.stock) + 1
              /\ db'.sales = db.sales
              /\ db'.expenses = db.expenses]_vars

\* an upsert updated the sample row of Sugar: new threshold, same id
C5_Witness ==
    /\ last.op = "add_stock_safe"
    /\ ~last.raised
    /\ last.created = FALSE
    /\ last.item = Sugar
    /\ Len(db.stock) = 3
    /\ \E i \in 1..Len(db.stock) :
          /\ db.stock[i].item = Sugar
          /\ db.stock[i].threshold = last.threshold
          /\ db.stock[i].threshold # SampleStock[1].threshold
          /\ db.stock[i].id = last.ret

\* C6: an upsert_stock repeated at once with the same arguments leaves the
\* store as the first call left it, with exactly one row of that item
\* holding the arguments, and returns created = FALSE.
C6_UpsertIdempotent ==
    [][(last'.op = "add_stock_safe" /\ ~last'.raised /\ last'.again)
       => /\ db' = db
          /\ last'.created = FALSE
          /\ Cardinality(StockRowsOf(db', last'.item)) = 1
          /\ \A i \in StockRowsOf(db', last'.item) :
                /\ db'.stock[i].qty = last'.qty
                /\ db'.stock[i].threshold = last'.threshold
                /\ db'.stock[i].unit_cost = last'.unit_cost]_vars

\* the form was submitted twice with (Sugar, 10, 5, 40)
C6_Witness ==
    /\ last.op = "add_stock_safe"
    /\ ~last.raised
    /\ last.again
    /\ last.item = Sugar /\ last.qty = 10

\* C7: every Sale row of the store has total = qty * unit_price, whether it
\* came from the sale form, a Sales import or the sample data, and no step
\* changes a Sale row that is already there.
C7_SaleTotals ==
    [][/\ \A i \in 1..Len(db'.sales) :
             db'.sales[i].total = db'.sales[i].qty * db'.sales[i].unit_price
       /\ Len(db'.sales) >= Len(db.sales)
       /\ \A i \in 1..Len(db.sales) : db'.sales[i] = db.sales[i]]_vars

\* sales of all three origins are in the store
C7_Witness ==
    /\ last.op = "import" /\ last.data_type = "Sales" /\ last.success >= 1
    /\ \E i \in 1..Len(db.sales) : db.sales[i].customer = Bob
    /\ \E i \in 1..Len(db.sales) :
          db.sales[i].customer = John /\ db.sales[i].qty = 1
    /\ \E i \in 1..Len(db.sales) :
          db.sales[i].customer = Empty /\ db.sales[i].total = 100

\* ------------------------------------------------- claims on the normalizer
\* the required text field of a data type
RequiredField(data_type) == IF data_type = "Expenses" THEN s_category ELSE s_item

\* the columns that carry the field name once the headers, as read_csv gives
\* them, are resolved
ColumnsOf(data_type, raw, name) ==
    LET mapping == CASE data_type = "Sales" -> SalesMapping
                     [] data_type = "Inventory" -> InventoryMapping
                     [] OTHER -> ExpensesMapping
        columns == read_csv(raw).columns
    IN  {j \in 1..Len(columns) :
            RenameTarget(_clean_cols(columns)[j], mapping) = name}

\* the file rows that the output rows were made from
LinesOut == {last.df.lines[last.out.rows[k].idx] : k \in 1..Len(last.out.rows)}

\* the output row made from file row r
OutRow(r) ==
    last.out.rows[CHOOSE k \in 1..Len(last.out.rows) :
                     last.df.lines[last.out.rows[k].idx] = r]

\* C8: a row of the file whose required text field (item for Sales and
\* Inventory, category for Expenses) is empty, blank or absent is not among
\* the rows the normalizer puts out, whatever its other fields hold.
C8_BlankRequiredFieldExcluded ==
    last.op = "normalize" =>
        LET cols == ColumnsOf(last.data_type, last.raw, RequiredField(last.data_type))
        IN  \A r \in 1..Len(last.raw.rows) :
                (\A j \in cols : Strip(last.raw.rows[r][j]) = <<>>) => r \notin LinesOut

\* the required field is absent (no column resolves to it), or it is blank in
\* a row next to one where it is filled: those rows are left out
C8_Witness ==
    /\ last.op = "normalize"
    /\ last.out.ok
    /\ Len(last.raw.rows) = 2
    /\ LET cols == ColumnsOf(last.data_type, last.raw, RequiredField(last.data_type))
       IN  /\ Cardinality(cols) = 1
           /\ \A j \in cols : last.raw.rows[1][j] = <<" ">>
           /\ \A j \in cols : Strip(last.raw.rows[2][j]) # <<>>
    /\ LinesOut = {2}

\* C9: when the normalizer delivers, every Sales output row has qty > 0 and
\* every Expenses output row has amount > 0, no Sales row whose quantity
\* field is a number <= 0 is put out, and an Inventory row with a non-blank
\* item is put out even when its quantity is zero or negative.
C9_PositivityFilters ==
    (last.op = "normalize" /\ last.out.ok) =>
        LET out == last.out.rows
            raw == last.raw
            qtys == ColumnsOf(last.data_type, raw, s_qty)
            amts == ColumnsOf(last.data_type, raw, s_amount)
            items == ColumnsOf(last.data_type, raw, s_item)
            NonPositive(f) == IsIntText(f) /\ ParseInt(f) <= 0
        IN  /\ last.data_type = "Sales" =>
                  /\ \A k \in 1..Len(out) : out[k].qty > 0
                  /\ \A r \in 1..Len(raw.rows) :
                        (\E j \in qtys : NonPositive(raw.rows[r][j]))
                            => r \notin LinesOut
            /\ last.data_type = "Expenses" =>
                  /\ \A k \in 1..Len(out) : out[k].amount > 0
                  /\ \A r \in 1..Len(raw.rows) :
                        (amts = {} \/ \E j \in amts : NonPositive(raw.rows[r][j]))
                            => r \notin LinesOut
            /\ last.data_type = "Inventory" =>
                  \A r \in 1..Len(raw.rows) :
                      (\E j \in items : Strip(raw.rows[r][j]) # <<>>)
                          => r \in LinesOut

\* a Sales file with quantities 0 and 2: only the second row is put out
C9_Witness ==
    /\ last.op = "normalize"
    /\ last.out.ok
    /\ last.data_type = "Sales"
    /\ last.raw.header = << <<" ", "S", "K", "U", " ">>, <<"Q", "t", "y">> >>
    /\ last.raw.rows = << << <<" ", "T", "e", "a", " ">>, <<"0">> >>,
                          << <<" ", "T", "e", "a", " ">>, <<"2">> >> >>
    /\ LinesOut = {2}
    /\ OutRow(2).qty = 2

\* header normalization as the mapping guide states it: trimmed, lowercased,
\* spaces and hyphens turned into underscores
Underscored(ch) == IF ch \in {" ", "-"} THEN "_" ELSE LowerChar(ch)

NormalForm(h) == LET t == Strip(h) IN [k \in 1..Len(t) |-> Underscored(t[k])]

\* the canonical name and synonyms of the fields of a data type
Schema(data_type) ==
    CASE data_type = "Sales" -> SalesMapping
      [] data_type = "Inventory" -> InventoryMapping
      [] OTHER -> ExpensesMapping

\* the field of an output row that carries a canonical name
FieldOf(row, name) ==
    CASE name = s_item -> row.item
      [] name = s_qty -> row.qty
      [] name = s_unit_price -> row.unit_price
      [] name = s_customer -> row.customer
      [] name = s_threshold -> row.threshold
      [] name = s_unit_cost -> row.unit_cost
      [] name = s_category -> row.category
      [] name = s_vendor -> row.vendor
      [] name = s_amount -> row.amount
      [] OTHER -> row.notes

\* what column j of the DataFrame holds in row i, coerced as field name is
ColumnValue(data_type, df, i, j, name) ==
    IF name \in {s_item, s_customer, s_category, s_vendor, s_notes}
    THEN TextOf(df, i, df.columns[j])
    ELSE NumOf(df, i, df.columns[j],
               IF data_type = "Sales" /\ name = s_qty THEN 1 ELSE 0)

\* the columns of the file whose header has a normal form that is the
\* canonical name or a synonym of schema entry e
Resolving(raw, e) ==
    {j \in 1..Len(raw.header) : NormalForm(raw.header[j]) \in ({e.target} \cup e.syns)}

\* C10: a column whose header, trimmed, lowercased and with spaces and
\* hyphens replaced by underscores, is the canonical name or a synonym of a
\* field of the selected data type, and which is the only such column for
\* that field, delivers its values to that field of every output row; so
\* Product Name, product-name and PRODUCT_NAME all deliver to item of Sales.
\* (Several columns for one field are the matter of the duplicate-column rule.)
C10_HeaderResolution ==
    last.op = "normalize" =>
        LET schema == Schema(last.data_type)
            out == last.out.rows
        IN  \A k \in 1..Len(schema) : \A j \in Resolving(last.raw, schema[k]) :
                Resolving(last.raw, schema[k]) = {j}
                => \A o \in 1..Len(out) :
                       FieldOf(out[o], schema[k].target)
                           = ColumnValue(last.data_type, last.df, out[o].idx,
                                         j, schema[k].target)

\* product-name, in second place, delivered Tea to item
C10_Witness ==
    /\ last.op = "normalize"
    /\ last.out.ok
    /\ last.data_type = "Sales"
    /\ last.raw.header = << <<"Q", "t", "y">>,
                            <<"p", "r", "o", "d", "u", "c", "t", "-", "n", "a", "m", "e">> >>
    /\ 1 \in LinesOut
    /\ OutRow(1).item = <<"T", "e", "a">>
    /\ OutRow(1).qty = 2

\* the leftmost of a set of columns
Leftmost(cols) == CHOOSE j \in cols : \A h \in cols : j <= h

\* C11: when two or more columns of the file resolve to one field of the
\* selected data type, the normalizer completes without error and every
\* output row takes that field from the leftmost of those columns.
C11_FirstColumnWins ==
    last.op = "normalize" =>
        LET schema == Schema(last.data_type)
            out == last.out.rows
        IN  \A k \in 1..Len(schema) :
                Cardinality(Resolving(last.raw, schema[k])) >= 2
                => /\ last.out.ok
                   /\ \A o \in 1..Len(out) :
                          FieldOf(out[o], schema[k].target)
                              = ColumnValue(last.data_type, last.df, out[o].idx,
                                            Leftmost(Resolving(last.raw, schema[k])),
                                            schema[k].target)

\* a field of the file that is filled but is not a number
Unparsable(f) == f # <<>> /\ ~IsIntText(f)

\* C12: a filled cell of a quantity or amount column that does not parse as
\* a number is coerced to zero, in every data type, and the normalizer does
\* not fail over it: an output row made from such a file row carries zero in
\* that field (so a Sales row or an Expenses row of that kind, which the
\* positivity filters drop, is not put out with another value).
C12_UnparsableBecomesZero ==
    last.op = "normalize" =>
        LET schema == Schema(last.data_type)
        IN  /\ (\A k \in 1..Len(schema) :
                    Cardinality(Resolving(last.raw, schema[k])) <= 1)
               => last.out.ok
            /\ \A k \in 1..Len(schema) : \A j \in Resolving(last.raw, schema[k]) :
                  (/\ schema[k].target \in {s_qty, s_amount}
                   /\ Resolving(last.raw, schema[k]) = {j})
                  => \A r \in LinesOut :
                         Unparsable(last.raw.rows[r][j])
                         => FieldOf(OutRow(r), schema[k].target) = 0

\* the default the schema gives a field no column supplies
DefaultOf(name) ==
    IF name \in {s_item, s_customer, s_category, s_vendor, s_notes} THEN <<>> ELSE 0

\* the fields of an output row of a data type, beside its index
OutputFields(data_type) ==
    CASE data_type = "Sales" -> {"item", "qty", "unit_price", "customer"}
      [] data_type = "Inventory" -> {"item", "qty", "threshold", "unit_cost"}
      [] OTHER -> {"category", "vendor", "amount", "notes"}

\* C13: when no header of the file resolves to a field of the selected data
\* type, the normalizer completes without error and every output row carries
\* empty text (text field) or zero (numeric field) there; an output row
\* carries the four fields of the data type and no other column of the file.
C13_MissingFieldDefaulted ==
    last.op = "normalize" =>
        LET schema == Schema(last.data_type)
            out == last.out.rows
        IN  /\ \A k \in 1..Len(schema) :
                  Resolving(last.raw, schema[k]) = {}
                  => /\ last.out.ok
                     /\ \A o \in 1..Len(out) :
                           FieldOf(out[o], schema[k].target)
                               = DefaultOf(schema[k].target)
            /\ \A o \in 1..Len(out) :
                  DOMAIN out[o] = OutputFields(last.data_type) \cup {"idx"}

\* an Inventory file of the one column SKU: the row of Tea is put out with
\* quantity, threshold and unit cost zero
C13_Witness ==
    /\ last.op = "normalize"
    /\ last.out.ok
    /\ last.data_type = "Inventory"
    /\ last.raw.header = << <<" ", "S", "K", "U", " ">> >>
    /\ 1 \in LinesOut
    /\ OutRow(1).item = <<"T", "e", "a">>
    /\ OutRow(1).qty = 0 /\ OutRow(1).threshold = 0 /\ OutRow(1).unit_cost = 0

\* ------------------------------------------------- claims on the bulk import
\* the rows of an import whose write did not fail
Written(log) == {k \in 1..Len(log) : ~log[k].raised}

\* the store before row k of the import that just ran
StoreBefore(k) == IF k = 1 THEN db ELSE last'.log[k - 1].db

\* C14: in a bulk import in which the write of a row fails, the failure is
\* caught: the import does not end in an error, every normalized row is
\* attempted once, in order, the rows after the failed one included, and the
\* count reported is the number of rows whose write did not fail (for Sales
\* and Expenses, the number of rows the store gained).
C14_FailedRowSkipped ==
    [][(last'.op = "import" /\ Written(last'.log) # DOMAIN last'.log)
       => /\ ~last'.error
          /\ Len(last'.log) = Len(last'.norm)
          /\ \A k \in 1..Len(last'.log) : last'.log[k].idx = last'.norm[k].idx
          /\ last'.success = Cardinality(Written(last'.log))
          /\ last'.data_type = "Sales"
                => Len(db'.sales) = Len(db.sales) + last'.success
          /\ last'.data_type = "Expenses"
                => Len(db'.expenses) = Len(db.expenses) + last'.success]_vars

\* the first row of a Sales import failed and the second was written
C14_Witness ==
    /\ last.op = "import"
    /\ last.data_type = "Sales"
    /\ Len(last.log) = 3
    /\ last.log[1].raised
    /\ ~last.log[2].raised
    /\ last.success = 1
    /\ \E i \in 1..Len(db.sales) : db.sales[i].item = last.norm[2].item

\* C15: each row of a bulk import is committed on its own.  A row whose
\* write fails leaves the store as the row before it left it; no row takes
\* away or changes a Sale or Expense row that was there before it, nor a
\* Stock row of another item; and the store after the import is the store
\* after its last row.
C15_RowsCommittedSeparately ==
    [][(last'.op = "import" /\ ~last'.error)
       => /\ \A k \in 1..Len(last'.log) :
                LET before == StoreBefore(k)
                    after == last'.log[k].db
                IN  /\ last'.log[k].raised => after = before
                    /\ Len(after.sales) >= Len(before.sales)
                    /\ SubSeq(after.sales, 1, Len(before.sales)) = before.sales
                    /\ Len(after.expenses) >= Len(before.expenses)
                    /\ SubSeq(after.expenses, 1, Len(before.expenses)) = before.expenses
                    /\ IF last'.data_type = "Expenses"
                       THEN after.stock = before.stock
                       ELSE /\ Len(after.stock) >= Len(before.stock)
                            /\ \A i \in 1..Len(before.stock) :
                                  before.stock[i].item # last'.norm[k].item
                                  => after.stock[i] = before.stock[i]
          /\ db' = IF last'.log = <<>> THEN db
                   ELSE last'.log[Len(last'.log)].db]_vars

\* the second row of a Sales import failed; the Sale of the first row and
\* its stock decrement are in the store
C15_Witness ==
    /\ last.op = "import"
    /\ last.data_type = "Sales"
    /\ Len(last.log) = 3
    /\ ~last.log[1].raised
    /\ last.log[2].raised
    /\ db = last.log[1].db
    /\ \E i \in 1..Len(db.sales) : db.sales[i].item = Sugar /\ db.sales[i].customer = Empty
    /\ \E i \in 1..Len(db.stock) : db.stock[i].item = Sugar /\ db.stock[i].qty = 8

\* C16: an upload is read as delimited text first and, only when that
\* fails, as a spreadsheet: a file that parses as text is imported as
\* read_csv reads it, a file that only parses as a spreadsheet is imported as
\* read_excel reads it, and a file that parses as neither ends the import in
\* one error with no row applied and the store as it was.
C16_FileLevelFailure ==
    [][last'.op = "import"
       => /\ last'.file.kind = "bad"
                => /\ last'.error
                   /\ last'.success = 0
                   /\ last'.log = <<>>
                   /\ db' = db
          /\ (last'.file.kind = "csv" /\ ~last'.error)
                => last'.norm = Normalize(last'.data_type, read_csv(last'.file)).rows
          /\ last'.file.kind = "xlsx"
                => /\ ~last'.error
                   /\ last'.norm = Normalize(last'.data_type, read_excel(last'.file)).rows]_vars

\* a file that is neither text nor spreadsheet was uploaded to a store that
\* holds sales and stock
C16_Witness ==
    /\ last.op = "import"
    /\ last.file.kind = "bad"
    /\ last.error
    /\ db.sales # <<>>
    /\ db.stock # <<>>

\* the one column of the file that resolves to a field of Sales, or 0
SalesColumn(file, name) ==
    LET entry == CHOOSE e \in {SalesMapping[k] : k \in 1..Len(SalesMapping)} :
                     e.target = name
        cols == Resolving(file, entry)
    IN  IF Cardinality(cols) = 1 THEN CHOOSE j \in cols : TRUE ELSE 0

\* the rows of a Sales file that are invalid and so to be dropped before
\* writing: blank item, price that is not a number, quantity not positive
InvalidSalesRows(file) ==
    LET item == SalesColumn(file, s_item)
        qty == SalesColumn(file, s_qty)
        price == SalesColumn(file, s_unit_price)
    IN  {r \in 1..Len(file.rows) :
            \/ Strip(file.rows[r][item]) = <<>>
            \/ Unparsable(file.rows[r][price])
            \/ (IsIntText(file.rows[r][qty]) /\ ParseInt(file.rows[r][qty]) <= 0)}

\* C17: the success count of a Sales import is the number of rows of the
\* file, less the rows dropped before writing because their price is not a
\* number or their item is blank (or their quantity is not positive), less
\* the rows whose write failed.
C17_SalesSuccessCount ==
    [][(/\ last'.op = "import"
        /\ last'.data_type = "Sales"
        /\ last'.file.kind = "csv"
        /\ SalesColumn(last'.file, s_item) # 0
        /\ SalesColumn(last'.file, s_qty) # 0
        /\ SalesColumn(last'.file, s_unit_price) # 0)
       => /\ ~last'.error
          /\ last'.success = Len(last'.file.rows)
                                - Cardinality(InvalidSalesRows(last'.file))
                                - Cardinality(DOMAIN last'.log \ Written(last'.log))]_vars

\* ------------------------------------------------- claims on the read queries
\* the Stock rows at or below their threshold
LowRows == {i \in 1..Len(db.stock) : db.stock[i].qty <= db.stock[i].threshold}

Trailing == {i \in 1..Len(db.sales) :
                db.sales[i].date >= today - 7 /\ db.sales[i].date <= today}

RECURSIVE TotalOf(_)
TotalOf(rows) ==
    IF rows = {} THEN 0
    ELSE LET i == CHOOSE k \in rows : TRUE
         IN  db.sales[i].total + TotalOf(rows \ {i})

\* C19: get_sales_forecast returns 7 times the average total of the Sale
\* rows dated in the trailing 7 days (from 7 days before today on), and 0
\* when there is no such row, in an empty store too; rows dated before that
\* have no part in it.
C19_SalesForecast ==
    last.op = "get_sales_forecast" =>
        /\ last.forecast.den # 0
        /\ IF Trailing = {}
           THEN last.forecast.num = 0
           ELSE last.forecast.num * Cardinality(Trailing)
                    = 7 * TotalOf(Trailing) * last.forecast.den

\* two sales in the window (50 and 100) and one before it (100): 7 * 75
C19_Witness ==
    /\ last.op = "get_sales_forecast"
    /\ Len(db.sales) = 3
    /\ Cardinality(Trailing) = 2
    /\ TotalOf(Trailing) = 150
    /\ \E i \in 1..Len(db.sales) : db.sales[i].date = Jan15 /\ db.sales[i].total = 100
    /\ \E i \in 1..Len(db.sales) : db.sales[i].date = today - 7
    /\ last.forecast.num = 525 * last.forecast.den

\* the items sold
ItemsSold == {db.sales[i].item : i \in 1..Len(db.sales)}

RECURSIVE QtyOf(_)
QtyOf(rows) ==
    IF rows = {} THEN 0
    ELSE LET i == CHOOSE k \in rows : TRUE
         IN  db.sales[i].qty + QtyOf(rows \ {i})

\* the quantity sold of an item, over all its Sale rows
Cumulative(item) == QtyOf({i \in 1..Len(db.sales) : db.sales[i].item = item})

\* C20: get_top_items returns at most 5 entries (all items when there are
\* fewer), one per distinct item, each with the sum of the quantities of the
\* item's Sale rows, in descending order of that sum; an item left out has
\* sold no more than any item returned; on an empty store the result is empty.
C20_TopItems ==
    last.op = "get_top_items" =>
        LET top == last.top_items
            returned == {top[k].item : k \in 1..Len(top)}
        IN  /\ Len(top) <= 5
            /\ Len(top) = IF Cardinality(ItemsSold) < 5 THEN Cardinality(ItemsSold) ELSE 5
            /\ returned \subseteq ItemsSold
            /\ Cardinality(returned) = Len(top)
            /\ \A k \in 1..Len(top) : top[k].qty = Cumulative(top[k].item)
            /\ \A k \in 1..Len(top) : \A h \in 1..Len(top) :
                  k < h => top[k].qty >= top[h].qty
            /\ \A it \in ItemsSold \ returned : \A k \in 1..Len(top) :
                  Cumulative(it) <= top[k].qty
            /\ db.sales = <<>> => top = <<>>

\* six items were sold; Tea leads with 5 + 1, and an item that sold 1 is
\* left out while another that sold 1 is returned
C20_Witness ==
    /\ last.op = "get_top_items"
    /\ Cardinality(ItemsSold) = 6
    /\ Len(last.top_items) = 5
    /\ last.top_items[1] = [item |-> Tea, qty |-> 6]
    /\ last.top_items[5].qty = 1
    /\ \E it \in ItemsSold :
          /\ Cumulative(it) = 1
          /\ \A k \in 1..5 : last.top_items[k].item # it

\* ---------------------------------------------------------------------- C21
DatedOn(rows, day) == {i \in 1..Len(rows) : rows[i].date = day}

RECURSIVE SumOver(_, _)
SumOver(f, idx) ==
    IF idx = {} THEN 0
    ELSE LET i == CHOOSE j \in idx : TRUE IN f[i] + SumOver(f, idx \ {i})

\* C21: for the current date, get_todays_sales is the sum of total over the
\* Sale rows dated today, get_todays_expenses the sum of amount over the
\* Expense rows dated today, and get_net_profit the first minus the second;
\* rows of other dates are not counted, and all three are numbers (zero on
\* an empty store).
C21_TodaysFigures ==
    last.op = "show_dashboard" =>
        LET sales == SumOver([i \in 1..Len(db.sales) |-> db.sales[i].total],
                             DatedOn(db.sales, today))
            expenses == SumOver([i \in 1..Len(db.expenses) |-> db.expenses[i].amount],
                                DatedOn(db.expenses, today))
        IN  /\ last.todays_sales = Frac(sales, 1)
            /\ last.todays_expenses = Frac(expenses, 1)
            /\ last.net_profit = Frac(sales - expenses, 1)
            /\ (db.sales = <<>> /\ db.expenses = <<>> =>
                    /\ last.todays_sales = Frac(0, 1)
                    /\ last.todays_expenses = Frac(0, 1)
                    /\ last.net_profit = Frac(0, 1))

\* sales and expenses of today and of other days, with a loss for the day
C21_Witness ==
    /\ last.op = "show_dashboard"
    /\ DatedOn(db.sales, today) # {}
    /\ DatedOn(db.sales, today) # 1..Len(db.sales)
    /\ DatedOn(db.expenses, today) # {}
    /\ DatedOn(db.expenses, today) # 1..Len(db.expenses)
    /\ last.net_profit.num < 0

\* ---------------------------------------------------------------------- C22
\* C22: record_expense(category, vendor, amount, notes) that returns adds
\* exactly one Expense row with those values, the current date and a fresh
\* id, and leaves the Sale and Stock tables as they were (the store holds no
\* other table that a service writes); one that fails leaves no Expense row
\* behind.
C22_ExpenseRecorded ==
    [][last'.op = "add_expense"
       => /\ db'.sales = db.sales
          /\ db'.stock = db.stock
          /\ last'.fail # "none" => last'.raised
          /\ last'.raised => db'.expenses = db.expenses
          /\ ~last'.raised =>
                LET expense == db'.expenses[Len(db'.expenses)]
                IN  /\ OneAppended(db.expenses, db'.expenses)
                    /\ expense.category = last'.category
                    /\ expense.vendor = last'.vendor
                    /\ expense.amount = last'.amount
                    /\ expense.notes = last'.notes
                    /\ expense.date = today
                    /\ expense.id \notin IdsOf(db.expenses)]_vars

\* an expense recorded on the second day, in a store that holds an expense of
\* the day before
C22_Witness ==
    /\ last.op = "add_expense"
    /\ ~last.raised
    /\ today = Jan16
    /\ Len(db.expenses) = 2
    /\ db.expenses[1].date = Jan15 /\ db.expenses[2].date = Jan16

\* ---------------------------------------------------------------------- C23
\* rows is kept whole, row for row, at the front of rows2
KeptIn(rows, rows2) ==
    /\ Len(rows) <= Len(rows2)
    /\ \A i \in 1..Len(rows) : rows2[i] = rows[i]

\* C23: Sale and Expense rows are immutable: no step of the services
\* (record_sale, record_expense, upsert_stock, bulk import, load_sample_data)
\* changes a field of a committed Sale or Expense row or deletes the row, so
\* both tables only grow.
C23_RowsImmutable ==
    [][/\ KeptIn(db.sales, db'.sales)
       /\ KeptIn(db.expenses, db'.expenses)]_vars

\* the sample data was loaded over a sale that matches a sample sale in item,
\* customer and date but not in quantity, and over an expense
C23_Witness ==
    /\ last.op = "load_sample_data"
    /\ ~last.raised
    /\ db.expenses # <<>>
    /\ \E i \in 1..Len(db.sales) :
          /\ db.sales[i].item = Sugar
          /\ db.sales[i].customer = John
          /\ db.sales[i].date = Jan15
          /\ db.sales[i].qty = 1

\* ---------------------------------------------------------------------- C24
InCall(c) == calls[c].pc \in {"try", "commit", "except", "finally"}

\* C24: every service operation runs open, act, commit-or-rollback, close on
\* the session it opened: while the call runs its session is open; once it
\* has returned or raised, the session is closed, so no session is open
\* between two operations; and a write operation that raises has rolled
\* back before it closes.
C24_SessionScopedToCall ==
    \A c \in Callers :
        /\ InCall(c) => calls[c].session = "open"
        /\ ~InCall(c) => calls[c].session # "open"
        /\ calls[c].pc = "returned" => calls[c].session = "closed"
        /\ (/\ calls[c].pc \in {"finally", "returned"}
            /\ calls[c].op \in WriteOps
            /\ calls[c].raised) => calls[c].rolled_back
        /\ (calls[c].pc \in {"finally", "returned"} /\ ~calls[c].raised)
              => ~calls[c].rolled_back

\* a sale raised at its commit, rolled back and closed its session; a read
\* of the other caller raised and closed its session; an expense committed
C24_Witness ==
    \E c, o \in Callers :
        /\ calls[c].pc = "returned"
        /\ calls[c].op = "add_sale"
        /\ calls[c].raised
        /\ calls[c].found = 0
        /\ calls[o].pc = "returned"
        /\ calls[o].op \in ReadOps
        /\ calls[o].raised
        /\ db.expenses # <<>>

\* ---------------------------------------------------------------------- C30
Upsert(c) ==
    /\ calls[c].pc # "idle"
    /\ calls[c].op \in {"add_stock_safe", "update_stock"}

\* both callers looked the same item up and found no Stock row: the second
\* lookup came before the first commit
Racing(c, o) ==
    /\ c # o
    /\ Upsert(c) /\ Upsert(o)
    /\ calls[c].item = calls[o].item
    /\ calls[c].found = 0 /\ calls[o].found = 0

\* C30: when two upsert_stock calls for an item without a Stock row
\* interleave, both looking the item up before either commits, the unique
\* constraint on Stock.item keeps the table at one row for the item: at most
\* one of the two inserts commits, the other call raises with its session
\* rolled back and closed, and no reachable store holds a second row.
C30_RaceKeepsOneRow ==
    /\ \A i, j \in 1..Len(db.stock) :
          i # j => db.stock[i].item # db.stock[j].item
    /\ \A c, o \in Callers :
          (/\ Racing(c, o)
           /\ calls[c].pc = "returned"
           /\ calls[o].pc = "returned")
          => /\ calls[c].raised \/ calls[o].raised
             /\ calls[c].raised =>
                   calls[c].rolled_back /\ calls[c].session = "closed"

\* both callers found no row; the first insert committed, the second hit the
\* unique constraint at its commit, rolled back and closed
C30_Witness ==
    /\ Racing(1, 2)
    /\ calls[1].pc = "returned" /\ ~calls[1].raised
    /\ calls[2].pc = "returned" /\ calls[2].raised
    /\ calls[2].rolled_back /\ calls[2].session = "closed"
    /\ calls[1].s # calls[2].s
    /\ Len(db.stock) = 1
    /\ db.stock[1].qty = calls[1].s[1]
    /\ nops = 2

\* ---------------------------------------------------------------------- C25
\* C25: there is no floor on stock: a record_sale in which no step fails is
\* never refused, whatever the quantity on hand; for a Stock row holding q
\* and a sale of s the sale is recorded and the row holds q - s, negative
\* when s > q, and a further sale decrements it again.
C25_NoStockFloor ==
    [][(/\ last'.op = "add_sale"
        /\ last'.fail = "none"
        /\ StockRowsOf(db, last'.item) # {})
       => LET i == CHOOSE k \in StockRowsOf(db, last'.item) : TRUE
              q == db.stock[i].qty
              s == last'.qty
          IN  /\ ~last'.raised
              /\ OneAppended(db.sales, db'.sales)
              /\ db'.sales[Len(db'.sales)].qty = s
              /\ db'.stock[i].qty = q - s
              /\ s > q => db'.stock[i].qty < 0]_vars

\* Sugar stood at 1; a sale of 2 took it to -1 and a second sale of 2 to -3
C25_Witness ==
    /\ last.op = "add_sale"
    /\ ~last.raised
    /\ last.item = Sugar /\ last.qty = 2
    /\ Len(db.sales) = 2
    /\ \E i \in 1..Len(db.stock) :
          db.stock[i].item = Sugar /\ db.stock[i].qty = 0 - 3

\* ---------------------------------------------------------------------- C26
\* the Stock rows that the step wrote: new rows and rows with a changed field
WrittenStock ==
    {i \in 1..Len(db'.stock) : i > Len(db.stock) \/ db'.stock[i] # db.stock[i]}

\* C26: every operation that writes a Stock row (upsert_stock on insert and
\* on update, the decrement of record_sale, the stock part of
\* load_sample_data) sets the row's last_updated to the current date, so a
\* row's last_updated never moves backwards.
C26_LastUpdatedIsWriteDate ==
    [][/\ \A i \in WrittenStock : db'.stock[i].last_updated = today
       /\ \A i \in 1..Len(db.stock) :
             db'.stock[i].last_updated >= db.stock[i].last_updated]_vars

\* the sample data was loaded a day after its own date over a Sugar row
\* written that day
C26_Witness ==
    /\ last.op = "load_sample_data"
    /\ ~last.raised
    /\ today = Jan16
    /\ \E i \in 1..Len(db.stock) :
          /\ db.stock[i].item = Sugar
          /\ db.stock[i].id = 1
          /\ db.stock[i].last_updated = Jan15

\* ---------------------------------------------------------------------- C27
\* the item named in an alert text: what stands between the first skip
\* characters and the first colon
ItemOfAlert(text, skip) ==
    LET colon == CHOOSE k \in 1..Len(text) :
                     text[k] = ":" /\ \A j \in 1..(k - 1) : text[j] # ":"
    IN  SubSeq(text, skip + 1, colon - 1)

AlertedItems(alerts, skip) == {ItemOfAlert(alerts[k], skip) : k \in 1..Len(alerts)}

C28_SameUpsert ==
    [][last'.op \in {"add_stock_safe", "update_stock"}
       => LET a == add_stock_safe(db, last'.item, last'.qty, last'.threshold,
                                  last'.unit_cost, last'.fail)
              u == update_stock(db, last'.item, last'.qty, last'.threshold,
                                last'.unit_cost, last'.fail)
          IN  /\ a.db.stock = u.db.stock
              /\ a.raised = u.raised
              /\ db' \in {a.db, u.db}
              /\ a.db.sales = db.sales /\ u.db.sales = db.sales
              /\ a.db.expenses = db.expenses /\ u.db.expenses = db.expenses
              /\ u.ret = 0
              /\ ~a.raised =>
                    /\ a.ret \in IdsOf(a.db.stock)
                    /\ a.created = (StockRowsOf(db, last'.item) = {})]_vars

\* on the second day add_stock_safe overwrote a Stock row of the first day
C28_Witness ==
    /\ last.op = "add_stock_safe"
    /\ ~last.raised
    /\ ~last.created
    /\ today = Jan16
    /\ \E i \in 1..Len(db.stock) :
          /\ db.stock[i].item = last.item
          /\ db.stock[i].last_updated = Jan16
    /\ nops = 3

\* ---------------------------------------------------------------------- C29
SampleItems == {SampleStock[k].item : k \in 1..Len(SampleStock)}

\* the rows of a Sale table that a sample sale matches in item, customer and
\* date
Matching(rows, data) ==
    {i \in 1..Len(rows) :
        /\ rows[i].item = data.item
        /\ rows[i].customer = data.customer
        /\ rows[i].date = data.date}

\* C29: load_sample_data is idempotent and atomic.  A call right after a
\* call that returned leaves the store as it was.  A call that returns keeps
\* every Sale row, adds a sample sale only where no Sale row matches it in
\* item, customer and date, leaves Sugar, Rice and Tea with one Stock row
\* each, holding the sample values, and leaves the other Stock rows and the
\* Expense rows as they were.  A call that fails leaves the store as it was.
C29_SampleDataIdempotent ==
    [][last'.op = "load_sample_data"
       => /\ last'.fail # "none" => last'.raised
          /\ last'.raised => db' = db
          /\ (last'.again /\ ~last'.raised) => db' = db
          /\ ~last'.raised =>
                /\ KeptIn(db.sales, db'.sales)
                /\ db'.expenses = db.expenses
                /\ \A k \in 1..Len(SampleSales) :
                      Cardinality(Matching(db'.sales, SampleSales[k]))
                        = IF Matching(db.sales, SampleSales[k]) = {} THEN 1
                          ELSE Cardinality(Matching(db.sales, SampleSales[k]))
                /\ Len(db'.sales) - Len(db.sales)
                      = Cardinality({k \in 1..Len(SampleSales) :
                                        Matching(db.sales, SampleSales[k]) = {}})
                /\ \A k \in 1..Len(SampleStock) :
                      /\ Cardinality(StockRowsOf(db', SampleStock[k].item)) = 1
                      /\ \A i \in StockRowsOf(db', SampleStock[k].item) :
                            /\ db'.stock[i].qty = SampleStock[k].qty
                            /\ db'.stock[i].threshold = SampleStock[k].threshold
                            /\ db'.stock[i].unit_cost = SampleStock[k].unit_cost
                /\ \A i \in 1..Len(db.stock) :
                      db.stock[i].item \notin SampleItems
                          => db'.stock[i] = db.stock[i]]_vars

\* the sample data was loaded twice in a row over a store that held a Salt
\* row
C29_Witness ==
    /\ last.op = "load_sample_data"
    /\ last.again
    /\ ~last.raised
    /\ Len(db.sales) = 3
    /\ Len(db.stock) = 4
    /\ db.stock[1].item = Salt

====
